---- MODULE Spec2Model ----
(***************************************************************************)
(* A model of the catch-clause privacy analyser: the prompt templates with *)
(* their response validator and fallback generator                         *)
(* (src/ai/prompt-templates.js) and the AI client's four-step analysis     *)
(* pipeline (ai-client.js, src/unnamed/part_001).                          *)
(*                                                                         *)
(* JavaScript values are modelled as records.  A scalar or an array is     *)
(* [t, n, s, a]: t the kind, n the number (or the length of a string or an *)
(* array), s the text (or "NaN"), a the elements.  An object is [t, f]     *)
(* with f the record of the properties it has; a property that is not in   *)
(* DOMAIN f reads as undefined.  A response text is [json, v]: json says   *)
(* whether JSON.parse accepts the text, v is the value it parses to.       *)
(***************************************************************************)
EXTENDS Integers, Sequences, FiniteSets, TLC

VARIABLES
  \* ---- the AI client's pipeline (part_001) ----
  analysisData,      \* the argument of analyzePrivacyPolicy
  chromeAI,          \* which AI entry points the environment offers
  pc,                \* where analyzePrivacyPolicy stands
  call,              \* the AI call in flight
  summarizerResult,  \* const summarizerResult (part_001:17)
  cookieResult,      \* const cookieResult     (part_001:20)
  deletionResult,    \* const deletionResult   (part_001:23)
  riskResult,        \* const riskResult       (part_001:26)
  combinedData,      \* the argument built for runRiskAssessment (part_001:26-32)
  history,           \* per step: how its result came about, and from which response
  finalResult,       \* what analyzePrivacyPolicy returned
  returned,          \* "no" | "report" | "error"
  \* ---- the pure functions of prompt-templates.js, applied to drawn inputs ----
  tplName,           \* templateName
  tplInput,          \* inputData of generateFallbackResponse
  tplInput2,         \* a second inputData, to compare two fallbacks
  tplResponse,       \* response of validateResponse
  tplOut,            \* the completions the applications produced
  tplPc,             \* which applications have been made
  \* ---- formatPrompt, applied to drawn inputs ----
  fmtName,           \* templateName
  fmtVariables,      \* variables, as the entries Object.entries gives
  fmtOut,            \* the completion of formatPrompt
  fmtPc,             \* whether formatPrompt has been applied
  \* ---- the service worker (test-runner.js:929-1145) ----
  clock,             \* Date.now(), in milliseconds
  storageCache,      \* chrome.storage.local, the keys cache_<domain>
  storageLast,       \* chrome.storage.local, the key lastAnalysis
  request,           \* per message slot: where its analyzeSite stands
  started,           \* how many ANALYZE_SITE messages have arrived
  ticks,             \* how many times the clock has advanced
  \* ---- the functions of the content script and the utilities, applied ----
  csFn,              \* which function is applied
  csInput,           \* what it is applied to
  csOut,             \* what it gave
  csPc,              \* whether it has been applied
  \* ---- the popup and the message listener of the service worker ----
  popup,             \* SafemodePopup: its fields and where analyzeCurrentSite stands
  listener           \* the messages the service worker's listener has received

pipeVars == <<analysisData, chromeAI, pc, call, summarizerResult, cookieResult,
              deletionResult, riskResult, combinedData, history, finalResult, returned>>
tplVars == <<tplName, tplInput, tplInput2, tplResponse, tplOut, tplPc>>
promptVars == <<fmtName, fmtVariables, fmtOut, fmtPc>>
siteVars == <<clock, storageCache, storageLast, request, started, ticks>>
contentVars == <<csFn, csInput, csOut, csPc>>
popupVars == <<popup, listener>>
restVars == <<promptVars, siteVars, contentVars, popupVars>>
vars == <<pipeVars, tplVars, restVars>>

-----------------------------------------------------------------------------
(* JavaScript values *)

Undef == [t |-> "undefined", n |-> 0, s |-> "", a |-> <<>>]
Null == [t |-> "null", n |-> 0, s |-> "", a |-> <<>>]
Num(k) == [t |-> "number", n |-> k, s |-> "", a |-> <<>>]
NaNV == [t |-> "number", n |-> 0, s |-> "NaN", a |-> <<>>]
Bool(b) == [t |-> "boolean", n |-> IF b THEN 1 ELSE 0, s |-> "", a |-> <<>>]
Str(x, len) == [t |-> "string", n |-> len, s |-> x, a |-> <<>>]
Arr(elems) == [t |-> "array", n |-> Len(elems), s |-> "", a |-> elems]
Obj(props) == [t |-> "object", f |-> props]
EmptyObj == Obj(<<>>)

Nullish(v) == v.t \in {"undefined", "null"}

\* typeof v
TypeOf(v) ==
  CASE v.t \in {"null", "array", "object"} -> "object"
    [] OTHER -> v.t

IsNaN(v) == v.t = "number" /\ v.s = "NaN"

\* the truthiness a condition, && and || see
ToBoolean(v) ==
  CASE v.t \in {"undefined", "null"} -> FALSE
    [] v.t = "boolean" -> v.n = 1
    [] v.t = "number" -> ~(v.n = 0 \/ IsNaN(v))
    [] v.t = "string" -> v.n > 0
    [] OTHER -> TRUE

\* v.key, for a v that is not null or undefined
Prop(v, key) ==
  IF v.t = "object" /\ key \in DOMAIN v.f THEN v.f[key] ELSE Undef

\* v?.key
OptProp(v, key) == IF Nullish(v) THEN Undef ELSE Prop(v, key)

\* a || b with the default forgotten
OrElse_NoDefault(a, b) == a

\* a || b
OrElse(a, b) == IF ToBoolean(a) THEN a ELSE b

\* a - b on numbers; anything that is not a number gives NaN here
Minus(a, b) ==
  IF a.t = "number" /\ b.t = "number" /\ ~IsNaN(a) /\ ~IsNaN(b)
  THEN Num(a.n - b.n) ELSE NaNV

\* a > k for a number literal k
Gt(a, k) == a.t = "number" /\ ~IsNaN(a) /\ a.n > k

\* list.includes(v) for a list of string literals
IncludesStr(list, v) == v.t = "string" /\ v.s \in list

\* how a call completed: by returning v, or by throwing
Ret(v) == [threw |-> FALSE, v |-> v]
Threw == [threw |-> TRUE, v |-> Undef]

\* JSON.parse(response)
JSON_parse(response) == IF response.json THEN Ret(response.v) ELSE Threw

RECURSIVE JSON_value(_)
\* the value JSON.stringify writes for v: NaN becomes null, an undefined
\* element becomes null, a property whose value is undefined is left out
JSON_value(v) ==
  CASE v.t = "object" ->
         LET keep == {k \in DOMAIN v.f : v.f[k].t /= "undefined"}
         IN Obj([k \in keep |-> JSON_value(v.f[k])])
    [] v.t = "array" ->
         [v EXCEPT !.a = [i \in 1..Len(v.a) |->
                            IF v.a[i].t = "undefined" THEN Null ELSE JSON_value(v.a[i])]]
    [] IsNaN(v) -> Null
    [] OTHER -> v

\* JSON.stringify(v) as a response text; JSON.stringify(undefined) is no text
JSON_stringify(v) ==
  IF v.t = "undefined" THEN [json |-> FALSE, v |-> Undef]
  ELSE [json |-> TRUE, v |-> JSON_value(v)]

-----------------------------------------------------------------------------
(* prompt-templates.js *)

TemplateNames == {"SUMMARIZER", "COOKIE_ANALYZER", "DELETION_ANALYZER", "RISK_SCORER"}

VERDICT_THRESHOLDS ==
  [SAFE |-> [min |-> 0, max |-> 30],
   CAUTION |-> [min |-> 31, max |-> 70],
   UNSAFE |-> [min |-> 71, max |-> 100]]

AI_CONFIG == [maxRetries |-> 2, timeoutMs |-> 30000, fallbackEnabled |-> TRUE]

\* the body of validateResponse's try block
validateResponseTry(templateName, response) ==
  LET p == JSON_parse(response)
      parsed == p.v
  IN
  IF p.threw THEN Threw
  ELSE CASE templateName = "SUMMARIZER" ->
              IF Nullish(parsed) THEN Threw
              ELSE IF ~ToBoolean(Prop(parsed, "summary"))
                   THEN Ret(Prop(parsed, "summary"))
                   ELSE Ret(Bool(Prop(parsed, "categories").t = "array"))
         [] templateName = "COOKIE_ANALYZER" ->
              IF Nullish(parsed) THEN Threw
              ELSE Ret(Bool(/\ TypeOf(Prop(parsed, "first_party")) = "number"
                            /\ TypeOf(Prop(parsed, "third_party")) = "number"))
         [] templateName = "DELETION_ANALYZER" ->
              IF Nullish(parsed) THEN Threw
              ELSE Ret(Bool(IncludesStr({"yes", "no", "partial", "unknown"},
                                        Prop(parsed, "can_delete"))))
         [] templateName = "RISK_SCORER" ->
              IF Nullish(parsed) THEN Threw
              ELSE Ret(Bool(/\ TypeOf(Prop(parsed, "risk_score")) = "number"
                            /\ IncludesStr({"SAFE", "CAUTION", "UNSAFE"},
                                           Prop(parsed, "verdict"))
                            /\ Prop(parsed, "reasons").t = "array"))
         [] OTHER -> Ret(Bool(TRUE))

\* validateResponse with its catch clause left out
validateResponse_NoCatch(templateName, response) ==
  validateResponseTry(templateName, response)

validateResponse(templateName, response) ==
  LET r == validateResponseTry(templateName, response)
  IN IF r.threw THEN Ret(Bool(FALSE)) ELSE r

FallbackSummary ==
  Str("Unable to analyze privacy policy automatically. Manual review recommended.", 74)
\* the deletion fallback without its instruction text
FallbackInstructions_None == Undef

FallbackInstructions == Str("Contact site support for data deletion requests", 47)
FallbackReasons == Arr(<<Str("AI analysis unavailable", 23), Str("Manual review recommended", 25)>>)
FallbackActions ==
  Arr(<<Str("Review privacy policy manually", 30), Str("Contact site for data practices", 31)>>)

\* the same with the third-party test written >= 5
FallbackRiskScore_AtLeast5(inputData) ==
  50 + (IF Gt(OptProp(Prop(inputData, "cookies"), "third_party"), 4) THEN 20 ELSE 0)
     + (IF OptProp(Prop(inputData, "deletion"), "can_delete") = Str("no", 2) THEN 15 ELSE 0)

\* the RISK_SCORER case of generateFallbackResponse, before the clamp
FallbackRiskScore(inputData) ==
  50 + (IF Gt(OptProp(Prop(inputData, "cookies"), "third_party"), 5) THEN 20 ELSE 0)
     + (IF OptProp(Prop(inputData, "deletion"), "can_delete") = Str("no", 2) THEN 15 ELSE 0)

Min(a, b) == IF a < b THEN a ELSE b

\* the three verdict strings
VerdictStr(name) ==
  Str(name, CASE name = "SAFE" -> 4 [] name = "CAUTION" -> 7 [] OTHER -> 6)

generateFallbackResponse(templateName, inputData) ==
  CASE templateName = "SUMMARIZER" ->
         Ret(Obj([summary |-> FallbackSummary,
                  categories |-> Arr(<<Str("unknown", 7)>>),
                  retention_clauses |-> Arr(<<Str("not specified", 13)>>)]))
    [] templateName = "COOKIE_ANALYZER" ->
         IF Nullish(inputData) THEN Threw
         ELSE LET cookieCount == OrElse(OptProp(Prop(inputData, "cookieData"), "cookieCount"), Num(0))
                  thirdParty == OrElse(OptProp(Prop(inputData, "cookieData"), "thirdPartyCookies"), Num(0))
              IN Ret(Obj([first_party |-> Minus(cookieCount, thirdParty),
                          third_party |-> thirdParty,
                          tracking |-> IF Gt(thirdParty, 0) THEN Str("likely", 6)
                                                          ELSE Str("unknown", 7),
                          categories |-> EmptyObj]))
    [] templateName = "DELETION_ANALYZER" ->
         Ret(Obj([can_delete |-> Str("unknown", 7),
                  instructions |-> FallbackInstructions,
                  links |-> Arr(<<>>),
                  contacts |-> Arr(<<>>)]))
    [] templateName = "RISK_SCORER" ->
         IF Nullish(inputData) THEN Threw
         ELSE LET riskScore == FallbackRiskScore(inputData)
                  verdict == IF riskScore < 30 THEN "SAFE"
                             ELSE IF riskScore < 70 THEN "CAUTION" ELSE "UNSAFE"
              IN Ret(Obj([risk_score |-> Num(Min(riskScore, 100)),
                          verdict |-> VerdictStr(verdict),
                          reasons |-> FallbackReasons,
                          actions |-> FallbackActions]))
    [] OTHER -> Ret(Obj([error |-> Str("Unknown template for fallback", 29)]))

-----------------------------------------------------------------------------
(* ai-client.js (part_001): the merge and the whole-pipeline fallback *)

\* a + b on numbers
Plus(a, b) ==
  IF a.t = "number" /\ b.t = "number" /\ ~IsNaN(a) /\ ~IsNaN(b)
  THEN Num(a.n + b.n) ELSE NaNV

(* A number with a fraction is an IEEE double.  Dbl(k, e) is the number       *)
(* (k * 2^56 + e) / (10 * 2^56): k tenths and e / (10 * 2^56) more.  A sum is *)
(* exact in this form, and it is rounded to the 53 bits of a double: to a    *)
(* multiple of DblUnit / (10 * 2^56), the nearer one, the even one on a tie. *)
Dbl(k, e) == [t |-> "number", n |-> k, s |-> "/10", a |-> <<e>>]

\* the spacing of the doubles around Dbl(k, e), in units of 1 / (10 * 2^56)
DblUnit(k, e) ==
  CASE k > 10 \/ (k = 10 /\ e >= 0) -> 160
    [] k > 5 \/ (k = 5 /\ e >= 0) -> 80
    [] k >= 3 -> 40
    [] k >= 2 -> 20
    [] OTHER -> 10

\* 2^56 modulo m
Pow56Mod(m) == CASE m = 320 -> 256 [] m = 160 -> 96 [] OTHER -> 16

DblRound(k, e) ==
  LET U == DblUnit(k, e)
      t == (Pow56Mod(2 * U) * k + e) % (2 * U)
      r == t % U
  IN IF 2 * r < U \/ (2 * r = U /\ t = r) THEN Dbl(k, e - r) ELSE Dbl(k, e + U - r)

\* a + b on doubles
DblAdd(a, b) == DblRound(a.n + b.n, a.a[1] + b.a[1])

\* Math.min(a, b) on doubles
DblMin(a, b) ==
  IF a.n < b.n \/ (a.n = b.n /\ a.a[1] <= b.a[1]) THEN a ELSE b

\* the number literal 0.k (and 1.0 for k = 10)
Tenths(k) == DblRound(k, 0)

\* Date.now(), a number the model does not compute with
DateNow == [t |-> "number", n |-> 0, s |-> "Date.now()", a |-> <<>>]

\* v.length
LengthOf(v) == IF v.t \in {"string", "array"} THEN Num(v.n) ELSE Undef

\* the values Object.entries(v) pairs with the keys of v
RECURSIVE SetToSeq(_)
SetToSeq(S) ==
  IF S = {} THEN <<>>
  ELSE LET x == CHOOSE y \in S : TRUE IN <<x>> \o SetToSeq(S \ {x})

EntryValues(v) ==
  CASE v.t = "object" -> [i \in 1..Cardinality(DOMAIN v.f) |-> v.f[SetToSeq(DOMAIN v.f)[i]]]
    [] v.t = "array" -> v.a
    [] v.t = "string" -> [i \in 1..v.n |-> Str("c", 1)]
    [] OTHER -> <<>>

EntryKeys(v) ==
  CASE v.t = "object" -> [i \in 1..Cardinality(DOMAIN v.f) |-> Str(SetToSeq(DOMAIN v.f)[i], 0)]
    [] v.t = "array" -> [i \in 1..v.n |-> Str("index", 0)]
    [] v.t = "string" -> [i \in 1..v.n |-> Str("index", 0)]
    [] OTHER -> <<>>

\* cookies.slice(0, 3).map(c => ({name: c.name, domain: c.domain})) completes
\* only for an array none of whose first three elements is null or undefined
ExamplesThrow(cookies) ==
  \/ cookies.t /= "array"
  \/ \E i \in 1..Min(3, Len(cookies.a)) : Nullish(cookies.a[i])

Examples(cookies) ==
  Arr([i \in 1..Min(3, Len(cookies.a)) |->
         Obj([name |-> Prop(cookies.a[i], "name"), domain |-> Prop(cookies.a[i], "domain")])])

extractDataUseFromSummary(summarizerRes) ==
  LET categories == Prop(summarizerRes, "categories")
      clauses == Prop(summarizerRes, "retention_clauses")
      first == CASE Nullish(clauses) -> Undef
                 [] clauses.t = "array" /\ clauses.n > 0 -> clauses.a[1]
                 [] clauses.t = "string" /\ clauses.n > 0 -> Str("c", 1)
                 [] OTHER -> Undef
  IN IF categories.t /= "array" THEN Threw
     ELSE Ret(Arr([i \in 1..Len(categories.a) |->
                     Obj([type |-> categories.a[i],
                          purpose |-> Str("not specified", 13),
                          retention |-> OrElse(first, Str("not specified", 13)),
                          shared_with |-> Arr(<<>>)])]))

\* the same with the summary counted like the other three signals
calculateConfidence_FlatBonus(data) ==
  LET summary == Prop(Prop(data, "summarizer"), "summary")
      cookies == Prop(data, "cookies")
      reasons == Prop(Prop(data, "risk"), "reasons")
      c0 == Tenths(5)
      c1 == IF ToBoolean(summary) /\ Gt(LengthOf(summary), 50) THEN DblAdd(c0, Tenths(1)) ELSE c0
      c2 == IF Gt(Plus(Prop(cookies, "first_party"), Prop(cookies, "third_party")), 0)
            THEN DblAdd(c1, Tenths(1)) ELSE c1
      c3 == IF Prop(Prop(data, "deletion"), "can_delete") /= Str("unknown", 7)
            THEN DblAdd(c2, Tenths(1)) ELSE c2
      c4 == IF ToBoolean(reasons) /\ Gt(LengthOf(reasons), 1) THEN DblAdd(c3, Tenths(1)) ELSE c3
  IN DblMin(c4, Tenths(10))

calculateConfidence(data) ==
  LET summary == Prop(Prop(data, "summarizer"), "summary")
      cookies == Prop(data, "cookies")
      reasons == Prop(Prop(data, "risk"), "reasons")
      c0 == Tenths(5)
      c1 == IF ToBoolean(summary) /\ Gt(LengthOf(summary), 50) THEN DblAdd(c0, Tenths(2)) ELSE c0
      c2 == IF Gt(Plus(Prop(cookies, "first_party"), Prop(cookies, "third_party")), 0)
            THEN DblAdd(c1, Tenths(1)) ELSE c1
      c3 == IF Prop(Prop(data, "deletion"), "can_delete") /= Str("unknown", 7)
            THEN DblAdd(c2, Tenths(1)) ELSE c2
      c4 == IF ToBoolean(reasons) /\ Gt(LengthOf(reasons), 1) THEN DblAdd(c3, Tenths(1)) ELSE c3
  IN DblMin(c4, Tenths(10))

combineAnalysisResults(data) ==
  LET summarizer == Prop(data, "summarizer")
      cookies == Prop(data, "cookies")
      deletion == Prop(data, "deletion")
      risk == Prop(data, "risk")
      categories == Prop(cookies, "categories")
      values == IF ToBoolean(categories) THEN EntryValues(categories) ELSE <<>>
      keys == IF ToBoolean(categories) THEN EntryKeys(categories) ELSE <<>>
      dataUse == extractDataUseFromSummary(summarizer)
      tracking == Prop(cookies, "tracking")
  IN
  IF \E i \in 1..Len(values) : Nullish(values[i]) \/ ExamplesThrow(values[i]) THEN Threw
  ELSE IF dataUse.threw THEN Threw
  ELSE Ret(Obj(
    [domain |-> Prop(data, "domain"),
     url |-> Prop(data, "url"),
     summary |-> Prop(summarizer, "summary"),
     data_use |-> dataUse.v,
     deletion |-> Obj([can_user_delete |-> Prop(deletion, "can_delete"),
                       how |-> Prop(deletion, "instructions"),
                       contacts_found |-> OrElse(Prop(deletion, "contacts"), Arr(<<>>))]),
     cookies |-> Obj([cookie_count |-> Plus(Prop(cookies, "first_party"), Prop(cookies, "third_party")),
                      third_party_cookies |-> Prop(cookies, "third_party"),
                      tracking_cookies_detected |->
                        Bool(tracking = Bool(TRUE) \/ tracking = Str("likely", 6)),
                      cookies_summary |->
                        Arr([i \in 1..Len(values) |->
                               Obj([category |-> keys[i],
                                    count |-> LengthOf(values[i]),
                                    examples |-> Examples(values[i])])])]),
     risk_score |-> Prop(risk, "risk_score"),
     verdict |-> Prop(risk, "verdict"),
     reasons |-> Prop(risk, "reasons"),
     actions |-> OrElse(Prop(risk, "actions"), Arr(<<>>)),
     confidence |-> calculateConfidence(data),
     timestamp |-> Prop(data, "timestamp")]))

generateFallbackAnalysis(data) ==
  LET cookieCount == OrElse(OptProp(Prop(data, "cookies"), "cookieCount"), Num(0))
      thirdPartyCount == OrElse(OptProp(Prop(data, "cookies"), "thirdPartyCookies"), Num(0))
      riskScore == 30 + (IF Gt(thirdPartyCount, 5) THEN 30 ELSE 0)
                      + (IF Gt(thirdPartyCount, 10) THEN 20 ELSE 0)
                      + (IF ~ToBoolean(Prop(data, "privacyPolicyText")) THEN 20 ELSE 0)
      verdict == IF riskScore < 40 THEN "SAFE"
                 ELSE IF riskScore < 70 THEN "CAUTION" ELSE "UNSAFE"
  IN Obj(
    [domain |-> Prop(data, "domain"),
     url |-> Prop(data, "url"),
     summary |-> Str("AI analysis unavailable. Manual privacy policy review recommended.", 66),
     data_use |-> Arr(<<Obj([type |-> Str("unknown", 7), purpose |-> Str("unknown", 7),
                             retention |-> Str("unknown", 7), shared_with |-> Arr(<<>>)])>>),
     deletion |-> Obj([can_user_delete |-> Str("unknown", 7),
                       how |-> Str("Contact website support for data deletion requests", 50),
                       contacts_found |-> Arr(<<>>)]),
     cookies |-> Obj([cookie_count |-> cookieCount,
                      third_party_cookies |-> thirdPartyCount,
                      tracking_cookies_detected |-> Bool(Gt(thirdPartyCount, 0)),
                      cookies_summary |-> Arr(<<>>)]),
     risk_score |-> Num(Min(riskScore, 100)),
     verdict |-> VerdictStr(verdict),
     reasons |-> Arr(<<Str("AI analysis unavailable", 23),
                       Str("High number of third-party cookies detected", 43)>>),
     actions |-> Arr(<<Str("Review privacy policy manually", 30),
                       Str("Consider blocking third-party cookies", 37)>>),
     confidence |-> Tenths(3),
     timestamp |-> DateNow])

-----------------------------------------------------------------------------
(* prompt-templates.js: formatPrompt *)

(* A text that is substituted is spelled out as a sequence of pieces, kept in *)
(* the a field of the string: "w" is a stretch of ordinary characters, every *)
(* other piece stands for itself.                                            *)
StrOf(pieces) == [t |-> "string", n |-> Len(pieces), s |-> "", a |-> pieces]

PiecesOf(v) == IF v.a /= <<>> THEN v.a ELSE IF v.s = "" THEN <<>> ELSE <<v.s>>

RECURSIVE Flatten(_)
\* the concatenation of a sequence of sequences
Flatten(seqs) == IF seqs = <<>> THEN <<>> ELSE Head(seqs) \o Flatten(Tail(seqs))

RECURSIVE Join(_)
\* the same with a comma between two neighbours
Join(seqs) ==
  IF seqs = <<>> THEN <<>>
  ELSE IF Len(seqs) = 1 THEN Head(seqs)
  ELSE Head(seqs) \o <<",">> \o Join(Tail(seqs))

\* the text between the quotes of a JSON string: a quote is escaped
Escape(pieces) == [i \in 1..Len(pieces) |-> IF pieces[i] = "\"" THEN "\\\"" ELSE pieces[i]]

RECURSIVE JSON_text(_)
\* the text JSON.stringify(value, null, 2) writes, white space left out
JSON_text(v) ==
  CASE v.t = "string" -> <<"\"">> \o Escape(PiecesOf(v)) \o <<"\"">>
    [] v.t = "number" -> IF IsNaN(v) THEN <<"null">> ELSE <<ToString(v.n)>>
    [] v.t = "boolean" -> IF v.n = 1 THEN <<"true">> ELSE <<"false">>
    [] v.t = "array" ->
         <<"[">> \o Join([i \in 1..Len(v.a) |->
                            IF v.a[i].t = "undefined" THEN <<"null">> ELSE JSON_text(v.a[i])]) \o <<"]">>
    [] v.t = "object" ->
         LET keys == SetToSeq({k \in DOMAIN v.f : v.f[k].t /= "undefined"})
         IN <<"{">> \o Join([i \in 1..Len(keys) |->
                               <<"\"" \o keys[i] \o "\":">> \o JSON_text(v.f[keys[i]])]) \o <<"}">>
    [] OTHER -> <<"null">>

\* String(value)
StringOf(v) ==
  CASE v.t = "string" -> PiecesOf(v)
    [] v.t = "number" -> IF IsNaN(v) THEN <<"NaN">> ELSE <<ToString(v.n)>>
    [] v.t = "boolean" -> IF v.n = 1 THEN <<"true">> ELSE <<"false">>
    [] OTHER -> <<v.t>>

\* typeof value === 'object' ? JSON.stringify(value, null, 2) : String(value)
Replacement(value) ==
  IF TypeOf(value) = "object" THEN JSON_text(value) ELSE StringOf(value)

\* what String.prototype.replace writes for a replacement string: $$ stands
\* for a dollar sign and $& for the text that was matched
ExpandReplacement(replacement, matched) ==
  Flatten([i \in 1..Len(replacement) |->
             CASE replacement[i] = "$$" -> <<"$">>
               [] replacement[i] = "$&" -> <<matched>>
               [] OTHER -> <<replacement[i]>>])

\* text.replace(new RegExp(placeholder, 'g'), replacement)
ReplaceAll(text, placeholder, replacement) ==
  Flatten([i \in 1..Len(text) |->
             IF text[i] = placeholder THEN ExpandReplacement(replacement, placeholder)
             ELSE <<text[i]>>])

\* `{${key}}`
PlaceholderOf(key) == "{" \o key \o "}"

RECURSIVE ReplaceEach(_, _)
\* Object.entries(variables).forEach(...): one replace per entry, in order
ReplaceEach(text, entries) ==
  IF entries = <<>> THEN text
  ELSE ReplaceEach(ReplaceAll(text, PlaceholderOf(Head(entries).key),
                              Replacement(Head(entries).value)),
                   Tail(entries))

\* names every object literal inherits from Object.prototype
ObjectPrototypeNames == {"constructor", "toString", "hasOwnProperty", "valueOf"}

\* PROMPT_TEMPLATES[templateName]
PROMPT_TEMPLATES(templateName) ==
  CASE templateName = "SUMMARIZER" ->
         [t |-> "object", name |-> Str("privacy_summarizer", 18), maxTokens |-> Num(500),
          template |-> StrOf(<<"You are a concise privacy-policy summarizer. ... INPUT:",
                               "{policyText}",
                               "OUTPUT FORMAT: ...">>)]
    [] templateName = "COOKIE_ANALYZER" ->
         [t |-> "object", name |-> Str("cookie_analyzer", 15), maxTokens |-> Num(400),
          template |-> StrOf(<<"You are a cookie policy analyzer. ... INPUT:",
                               "{cookieData}",
                               "OUTPUT FORMAT: JSON with fields ...">>)]
    [] templateName = "DELETION_ANALYZER" ->
         [t |-> "object", name |-> Str("deletion_analyzer", 17), maxTokens |-> Num(300),
          template |-> StrOf(<<"You are a privacy-rights assistant. ... INPUT:",
                               "{policyText}",
                               "OUTPUT FORMAT: JSON ...">>)]
    [] templateName = "RISK_SCORER" ->
         [t |-> "object", name |-> Str("risk_scorer", 11), maxTokens |-> Num(400),
          template |-> StrOf(<<"You are a privacy risk scoring agent. ... INPUT: { \"summarizer\":",
                               "{summarizerResult}", ", \"cookies\":",
                               "{cookieResult}", ", \"deletion\":",
                               "{deletionResult}", ", \"domain\": \"",
                               "{domain}", "\", \"url\": \"",
                               "{url}", "\" } OUTPUT FORMAT: JSON ...">>)]
    [] templateName \in ObjectPrototypeNames ->
         [t |-> "function", name |-> Str(IF templateName = "constructor" THEN "Object" ELSE templateName, 0),
          maxTokens |-> Undef, template |-> Undef]
    [] OTHER -> [t |-> "undefined", name |-> Undef, maxTokens |-> Undef, template |-> Undef]

\* a completion by throwing the named error
ThrewError(error) == [threw |-> TRUE, v |-> Str(error, 0)]

formatPrompt(templateName, variables) ==
  LET template == PROMPT_TEMPLATES(templateName)
  IN IF template.t = "undefined" THEN ThrewError("Unknown prompt template")
     ELSE IF template.template.t = "undefined" /\ variables /= <<>>
     THEN ThrewError("TypeError")
     ELSE Ret(Obj([prompt |-> IF template.template.t = "undefined" THEN Undef
                              ELSE StrOf(ReplaceEach(template.template.a, variables)),
                   maxTokens |-> OrElse(template.maxTokens, Num(500)),
                   name |-> template.name]))

-----------------------------------------------------------------------------
(* The content script and the scraper utilities: texts as strings *)

(* The texts of anchors, URLs, cookie names and domains are strings of the  *)
(* model, and the string methods are computed character by character.      *)

\* s.includes(sub)
Includes(s, sub) ==
  \E i \in 1 .. (Len(s) - Len(sub) + 1) : SubSeq(s, i, i + Len(sub) - 1) = sub

\* s.startsWith(prefix)
StartsWith(s, prefix) == Len(prefix) <= Len(s) /\ SubSeq(s, 1, Len(prefix)) = prefix

\* s.substring(from), counted from 0
SubstringFrom(s, from) == SubSeq(s, from + 1, Len(s))

UpperCaseLetters == "ABCDEFGHIJKLMNOPQRSTUVWXYZ"
LowerCaseLetters == "abcdefghijklmnopqrstuvwxyz"

\* the lower-case letter of every upper-case letter
LowerOf ==
  [c \in {SubSeq(UpperCaseLetters, i, i) : i \in 1 .. 26} |->
     LET i == CHOOSE i \in 1 .. 26 : SubSeq(UpperCaseLetters, i, i) = c
     IN SubSeq(LowerCaseLetters, i, i)]

LowerChar(c) == IF c \in DOMAIN LowerOf THEN LowerOf[c] ELSE c

RECURSIVE toLowerCase(_)
toLowerCase(s) ==
  IF Len(s) = 0 THEN s ELSE LowerChar(SubSeq(s, 1, 1)) \o toLowerCase(SubSeq(s, 2, Len(s)))

\* s.trim(); the only white space of the model's texts is the blank
RECURSIVE trim(_)
trim(s) ==
  IF Len(s) > 0 /\ SubSeq(s, 1, 1) = " " THEN trim(SubSeq(s, 2, Len(s)))
  ELSE IF Len(s) > 0 /\ SubSeq(s, Len(s), Len(s)) = " " THEN trim(SubSeq(s, 1, Len(s) - 1))
  ELSE s

\* s.replace(/\s+/g, ' ')
RECURSIVE CollapseSpace(_)
CollapseSpace(s) ==
  IF Len(s) < 2 THEN s
  ELSE IF SubSeq(s, 1, 2) = "  " THEN CollapseSpace(SubSeq(s, 2, Len(s)))
  ELSE SubSeq(s, 1, 1) \o CollapseSpace(SubSeq(s, 2, Len(s)))

\* the characters \w and \s of the model's texts
WordChars == LowerCaseLetters \o UpperCaseLetters \o "0123456789_ "

\* s.replace(/[^\w\s]/g, '')
RECURSIVE StripPunctuation(_)
StripPunctuation(s) ==
  IF Len(s) = 0 THEN s
  ELSE (IF Includes(WordChars, SubSeq(s, 1, 1)) THEN SubSeq(s, 1, 1) ELSE "")
       \o StripPunctuation(SubSeq(s, 2, Len(s)))

\* the index of the first occurrence of the character c in s, counted from 1,
\* and Len(s) + 1 if there is none
FirstIndex(s, c) ==
  IF Includes(s, c) THEN CHOOSE i \in 1 .. Len(s) :
                           /\ SubSeq(s, i, i) = c
                           /\ \A j \in 1 .. (i - 1) : SubSeq(s, j, j) # c
  ELSE Len(s) + 1

-----------------------------------------------------------------------------
(* The page the content script runs in, and new URL(href, base) *)

\* window.location.hostname and window.location.href
currentDomain == "example.com"
locationHref == "https://example.com/"

\* new URL(href, window.location.href): whether it throws, and the href and
\* the hostname of the URL it builds.  An absolute https URL keeps its path
\* and has its host in lower case; a mailto URL has no host; anything else is
\* resolved against the page.
ParseURL(href) ==
  IF StartsWith(toLowerCase(href), "https://")
  THEN LET rest == SubstringFrom(href, 8)
           slash == FirstIndex(rest, "/")
           host == toLowerCase(SubSeq(rest, 1, slash - 1))
           path == SubSeq(rest, slash, Len(rest))
       IN IF host = "" THEN [threw |-> TRUE, href |-> "", hostname |-> ""]
          ELSE [threw |-> FALSE, href |-> "https://" \o host \o (IF path = "" THEN "/" ELSE path),
                hostname |-> host]
  ELSE IF StartsWith(toLowerCase(href), "mailto:")
  THEN [threw |-> FALSE, href |-> "mailto:" \o SubstringFrom(href, 7), hostname |-> ""]
  ELSE IF StartsWith(href, "/")
  THEN [threw |-> FALSE, href |-> "https://" \o currentDomain \o href, hostname |-> currentDomain]
  ELSE [threw |-> FALSE, href |-> locationHref \o href, hostname |-> currentDomain]

-----------------------------------------------------------------------------
(* The content script's findPrivacyPolicyLinks (test-runner.js:1187-1312) *)

\* an anchor of document.querySelectorAll('a[href]'): its href attribute and
\* its textContent
Anchor(text, href) == [text |-> text, href |-> href]

urlPatterns ==
  {"privacy", "privacy-policy", "privacy_policy", "privacypolicy",
   "data-protection", "data-policy", "cookie", "cookies", "cookie-policy",
   "terms", "terms-of-service", "terms-and-conditions", "legal", "gdpr", "ccpa",
   "#privacy", "#privacy-policy", "#privacy_policy", "#data-protection",
   "#developer_policy", "#user_privacy", "#privacy_notice"}

textPatterns ==
  {"privacy policy", "privacy statement", "privacy notice", "privacy",
   "data protection", "data policy", "data usage", "data handling",
   "cookie policy", "cookie notice", "cookies",
   "terms of service", "terms and conditions", "terms of use", "terms",
   "legal", "gdpr", "ccpa", "california privacy",
   "developer policy", "api privacy", "user privacy"}

linkTextOf(link) == trim(toLowerCase(link.text))

\* isPrivacyLink (test-runner.js:1222-1249)
isPrivacyLink(link) ==
  LET href == link.href
      linkText == linkTextOf(link)
      linkUrl == toLowerCase(href)
      urlMatches ==
        \E pattern \in urlPatterns :
          IF StartsWith(pattern, "#")
          THEN Includes(linkUrl, pattern) \/ Includes(href, pattern)
          ELSE Includes(linkUrl, pattern)
      textMatches ==
        \E pattern \in textPatterns :
          IF Includes(pattern, " ")
          THEN \/ Includes(linkText, pattern)
               \/ Includes(CollapseSpace(linkText), pattern)
               \/ Includes(StripPunctuation(linkText), StripPunctuation(pattern))
          ELSE Includes(linkText, pattern)
      isLegalWithPrivacyFragment ==
        /\ Includes(linkUrl, "/legal") \/ Includes(linkUrl, "legal")
        /\ Includes(href, "#privacy") \/ Includes(href, "#developer_policy") \/ Includes(href, "#data")
  IN urlMatches \/ textMatches \/ isLegalWithPrivacyFragment

\* priority (test-runner.js:1262-1283)
priorityOf(linkText, absoluteUrl, linkDomain) ==
  (IF Includes(linkText, "privacy policy") \/ Includes(absoluteUrl, "privacy-policy") THEN 10 ELSE 0)
  + (IF Includes(linkText, "privacy") \/ Includes(absoluteUrl, "privacy") THEN 5 ELSE 0)
  + (IF Includes(linkText, "legal") \/ Includes(absoluteUrl, "legal") THEN 1 ELSE 0)
  + (IF linkDomain = currentDomain THEN 3 ELSE 0)

\* whether the forEach body pushes the anchor (test-runner.js:1216-1258)
Pushed(link) == link.href # "" /\ isPrivacyLink(link) /\ ~ParseURL(link.href).threw

\* the object pushed for an anchor (test-runner.js:1285-1290)
Candidate(link) ==
  LET parsed == ParseURL(link.href)
  IN [url |-> parsed.href,
      text |-> linkTextOf(link),
      isSameDomain |-> parsed.hostname = currentDomain,
      priority |-> priorityOf(linkTextOf(link), parsed.href, parsed.hostname)]

\* links, after the forEach over the anchors
CollectLinks(allLinks) ==
  LET pushed == SelectSeq(allLinks, LAMBDA link : Pushed(link))
  IN [i \in 1 .. Len(pushed) |-> Candidate(pushed[i])]

\* the comparator of links.sort (test-runner.js:1295)
ComparePriority(a, b) == b.priority - a.priority

\* x put into a sorted list, behind everything it does not sort before
RECURSIVE InsertByPriority(_, _)
InsertByPriority(x, sorted) ==
  IF sorted = <<>> THEN <<x>>
  ELSE IF ComparePriority(x, Head(sorted)) < 0 THEN <<x>> \o sorted
  ELSE <<Head(sorted)>> \o InsertByPriority(x, Tail(sorted))

\* links.sort((a, b) => b.priority - a.priority): Array.prototype.sort is stable
RECURSIVE SortByPriority(_)
SortByPriority(links) ==
  IF links = <<>> THEN <<>>
  ELSE InsertByPriority(links[Len(links)], SortByPriority(SubSeq(links, 1, Len(links) - 1)))

\* uniqueLinks (test-runner.js:1298-1306, privacy-scraper.js:77-85)
RECURSIVE RemoveDuplicates(_, _)
RemoveDuplicates(links, seenUrls) ==
  IF links = <<>> THEN <<>>
  ELSE IF Head(links).url \in seenUrls THEN RemoveDuplicates(Tail(links), seenUrls)
  ELSE <<Head(links)>> \o RemoveDuplicates(Tail(links), seenUrls \cup {Head(links).url})

\* the sorted links with their duplicates kept
contentUniqueLinks_KeepAll(allLinks) == SortByPriority(CollectLinks(allLinks))


\* uniqueLinks of the content script, before the map to URLs
contentUniqueLinks(allLinks) == RemoveDuplicates(SortByPriority(CollectLinks(allLinks)), {})

\* the content script's findPrivacyPolicyLinks(): the URLs
contentFindPrivacyPolicyLinks(allLinks) ==
  LET uniqueLinks == contentUniqueLinks(allLinks)
  IN [i \in 1 .. Len(uniqueLinks) |-> uniqueLinks[i].url]

-----------------------------------------------------------------------------
(* privacy-scraper.js: findPrivacyPolicyLinks *)

PRIVACY_PATTERNS ==
  {"privacy", "privacy-policy", "privacy_policy", "privacypolicy", "data-protection",
   "data-policy", "cookie", "cookies", "cookie-policy", "terms", "terms-of-service",
   "terms-and-conditions", "legal", "gdpr", "ccpa"}

\* the number of the terms that text or url includes
TermsIn(terms, text, url) == Cardinality({term \in terms : Includes(text, term) \/ Includes(url, term)})

getPrivacyRelevanceScore(text, url) ==
  10 * TermsIn({"privacy policy", "privacy-policy", "data protection"}, text, url)
  + 5 * TermsIn({"privacy", "cookie", "data"}, text, url)
  + 1 * TermsIn({"legal", "terms"}, text, url)

\* whether the scraper pushes the anchor (privacy-scraper.js:32-50)
ScraperPushed(link) ==
  /\ link.href # ""
  /\ \E pattern \in PRIVACY_PATTERNS :
       Includes(linkTextOf(link), pattern) \/ Includes(toLowerCase(link.href), pattern)
  /\ ~ParseURL(link.href).threw

\* the object the scraper pushes (privacy-scraper.js:54-59), without the selector
ScraperCandidate(link) ==
  LET parsed == ParseURL(link.href)
  IN [url |-> parsed.href, text |-> linkTextOf(link), isSameDomain |-> parsed.hostname = currentDomain]

ScraperCollectLinks(allLinks) ==
  LET pushed == SelectSeq(allLinks, LAMBDA link : ScraperPushed(link))
  IN [i \in 1 .. Len(pushed) |-> ScraperCandidate(pushed[i])]

\* the comparator of links.sort (privacy-scraper.js:63-74)
CompareRelevance(a, b) ==
  IF a.isSameDomain /\ ~b.isSameDomain THEN -1
  ELSE IF ~a.isSameDomain /\ b.isSameDomain THEN 1
  ELSE getPrivacyRelevanceScore(b.text, b.url) - getPrivacyRelevanceScore(a.text, a.url)

RECURSIVE InsertByRelevance(_, _)
InsertByRelevance(x, sorted) ==
  IF sorted = <<>> THEN <<x>>
  ELSE IF CompareRelevance(x, Head(sorted)) < 0 THEN <<x>> \o sorted
  ELSE <<Head(sorted)>> \o InsertByRelevance(x, Tail(sorted))

RECURSIVE SortByRelevance(_)
SortByRelevance(links) ==
  IF links = <<>> THEN <<>>
  ELSE InsertByRelevance(links[Len(links)], SortByRelevance(SubSeq(links, 1, Len(links) - 1)))

\* the scraper's findPrivacyPolicyLinks(): the link objects
findPrivacyPolicyLinks(allLinks) == RemoveDuplicates(SortByRelevance(ScraperCollectLinks(allLinks)), {})

-----------------------------------------------------------------------------
(* cookie-extractor.js (part_000): categorizeCookies *)

\* the categories in the order of Object.entries(patterns)
CategoryOrder == <<"essential", "analytics", "advertising", "preferences", "social">>
Categories == {"essential", "analytics", "advertising", "preferences", "social", "unknown"}

\* patterns: every pattern is /^prefix/i
Prefixes(category) ==
  CASE category = "essential" ->
         {"session", "csrf", "auth", "login", "security", "consent", "necessary", "required"}
    [] category = "analytics" ->
         {"_ga", "_gid", "_gtm", "_gat", "google", "analytics", "tracking", "stats", "metrics",
          "utm", "hotjar", "mixpanel", "amplitude"}
    [] category = "advertising" ->
         {"_fbp", "_fbc", "facebook", "fb", "doubleclick", "googleads", "adsystem", "ad",
          "marketing", "retargeting", "conversion"}
    [] category = "preferences" ->
         {"pref", "settings", "theme", "language", "locale", "timezone", "currency"}
    [] category = "social" ->
         {"twitter", "linkedin", "instagram", "youtube", "social", "share", "like"}

\* categoryPatterns.some(pattern => pattern.test(cookie.name))
MatchesCategory(category, name) ==
  \E prefix \in Prefixes(category) : StartsWith(toLowerCase(name), prefix)

\* the categories with a pattern that matches the name, in the order of the patterns
MatchingCategories(name) == SelectSeq(CategoryOrder, LAMBDA category : MatchesCategory(category, name))

\* a loop without the break: the cookie goes to every category that matches
PushedInto_EveryMatch(name) ==
  IF MatchingCategories(name) = <<>> THEN {"unknown"}
  ELSE {MatchingCategories(name)[i] : i \in DOMAIN MatchingCategories(name)}

\* a loop that keeps the last category that matches
PushedInto_LastMatch(name) ==
  IF MatchingCategories(name) = <<>> THEN {"unknown"}
  ELSE {MatchingCategories(name)[Len(MatchingCategories(name))]}

\* the categories the loop of categorizeCookies pushes a cookie to
\* (part_000:132-161): the first that matches, and unknown if none does
PushedInto(name) ==
  IF MatchingCategories(name) = <<>> THEN {"unknown"} ELSE {Head(MatchingCategories(name))}

\* formatExpiration(expirationDate) of a cookie without an expiration date
formatExpiration == "Session"

\* the object pushed for a cookie (part_000:136-144, 152-160)
CategoryEntry(cookie, category) ==
  [name |-> cookie.name, domain |-> cookie.domain, type |-> category,
   expires |-> formatExpiration, isThirdParty |-> cookie.isThirdParty]

\* the entries of a category, in the order of the cookies
RECURSIVE EntriesOf(_, _)
EntriesOf(cookies, category) ==
  IF cookies = <<>> THEN <<>>
  ELSE (IF category \in PushedInto(Head(cookies).name)
        THEN <<CategoryEntry(Head(cookies), category)>> ELSE <<>>)
       \o EntriesOf(Tail(cookies), category)

categorizeCookies(cookies) == [category \in Categories |-> EntriesOf(cookies, category)]

-----------------------------------------------------------------------------
(* cookie-extractor.js (part_000) and the content script: extractCookieData *)

\* s.split(separator), for a separator of one character
RECURSIVE Split(_, _)
Split(s, separator) ==
  LET at == FirstIndex(s, separator)
  IN IF at > Len(s) THEN <<s>>
     ELSE <<SubSeq(s, 1, at - 1)>> \o Split(SubSeq(s, at + 1, Len(s)), separator)

\* the cookies of document.cookie (part_000:65-92, test-runner.js:1330-1344):
\* a pair without '=' is dropped, and so is one with an empty name
parseCookieString(cookieString, pageDomain) ==
  IF cookieString = "" THEN <<>>
  ELSE LET cookiePairs == Split(cookieString, ";")
           kept == SelectSeq(cookiePairs,
                             LAMBDA pair : LET parts == Split(trim(pair), "=")
                                           IN parts[1] # "" /\ Len(parts) > 1)
       IN [i \in 1 .. Len(kept) |->
             LET parts == Split(trim(kept[i]), "=")
             IN [name |-> trim(parts[1]), value |-> trim(parts[2]),
                 domain |-> pageDomain, isThirdParty |-> FALSE]]

\* cookie.domain without its leading dot (test-runner.js:1355-1357)
cookieDomainOf(cookie) ==
  IF StartsWith(cookie.domain, ".") THEN SubstringFrom(cookie.domain, 1) ELSE cookie.domain

\* the filter of the content script (test-runner.js:1353-1361)
contentIsThirdParty(cookie, pageDomain) ==
  /\ ~Includes(pageDomain, cookieDomainOf(cookie))
  /\ ~Includes(cookieDomainOf(cookie), pageDomain)

\* the filter of the content script's fallback (test-runner.js:1381-1387)
heuristicThirdParty(cookie) ==
  \/ StartsWith(cookie.name, "_ga")
  \/ StartsWith(cookie.name, "_fb")
  \/ Includes(cookie.name, "doubleclick")
  \/ Includes(cookie.name, "google")
  \/ Includes(cookie.name, "analytics")

\* the chrome.cookies API as a page meets it: api is "none" where chrome.cookies
\* is undefined, "throws" where getAll rejects, "ok" where it resolves with cookies
CookieEnv(pageDomain, documentCookie, api, cookies) ==
  [pageDomain |-> pageDomain, documentCookie |-> documentCookie, api |-> api, cookies |-> cookies]

\* extractCookieData() of the content script (test-runner.js:1315-1407): in a
\* page without chrome.cookies the call throws a TypeError, which the inner
\* catch takes like a rejection
contentExtractCookieData(env) ==
  LET documentCookies == parseCookieString(env.documentCookie, env.pageDomain)
  IN IF env.api = "ok"
     THEN LET thirdPartyCookies ==
                SelectSeq(env.cookies, LAMBDA cookie : contentIsThirdParty(cookie, env.pageDomain))
          IN [documentCookies |-> documentCookies,
              allCookies |-> env.cookies,
              cookieCount |-> Len(env.cookies),
              thirdPartyCookies |-> Len(thirdPartyCookies),
              thirdPartyDomains |-> {cookieDomainOf(thirdPartyCookies[i]) : i \in DOMAIN thirdPartyCookies}]
     ELSE LET thirdPartyCookies == SelectSeq(documentCookies, LAMBDA cookie : heuristicThirdParty(cookie))
          IN [documentCookies |-> documentCookies,
              allCookies |-> <<>>,
              cookieCount |-> Len(documentCookies),
              thirdPartyCookies |-> Len(thirdPartyCookies),
              thirdPartyDomains |->
                {d \in {"google-analytics.com", "facebook.com", "doubleclick.net"} :
                   \E i \in DOMAIN thirdPartyCookies :
                     \/ d = "google-analytics.com" /\ StartsWith(thirdPartyCookies[i].name, "_ga")
                     \/ d = "facebook.com" /\ StartsWith(thirdPartyCookies[i].name, "_fb")
                     \/ d = "doubleclick.net" /\ Includes(thirdPartyCookies[i].name, "doubleclick")}]

\* extractCookieData() of cookie-extractor.js (part_000:5-62)
extractCookieData(env) ==
  LET documentCookies == parseCookieString(env.documentCookie, env.pageDomain)
      chromeCookies ==
        IF env.api = "ok"
        THEN [i \in DOMAIN env.cookies |->
                [name |-> env.cookies[i].name, value |-> env.cookies[i].value,
                 domain |-> env.cookies[i].domain,
                 isThirdParty |-> ~Includes(env.cookies[i].domain, env.pageDomain)]]
        ELSE <<>>
      allCookies == documentCookies \o chromeCookies
      thirdPartyCookies ==
        SelectSeq(allCookies,
                  LAMBDA cookie : cookie.isThirdParty \/ ~Includes(cookie.domain, env.pageDomain))
  IN [documentCookies |-> documentCookies,
      chromeCookies |-> chromeCookies,
      cookieCount |-> Len(allCookies),
      thirdPartyCookies |-> Len(thirdPartyCookies),
      summary |-> categorizeCookies(allCookies)]

-----------------------------------------------------------------------------
(* The text extractors: extractTextFromHTML (privacy-scraper.js:151-217),    *)
(* getCleanPageText (test-runner.js:1547-1587) and the service worker's      *)
(* fetchPrivacyPolicyContent (test-runner.js:1058-1081)                      *)

(* A text of a document is a sequence of runs: n characters of one class,    *)
(* "w" an ordinary character, " " white space, "." a punctuation mark of     *)
(* [.,;:!?].  Its length is the sum of its runs.                             *)

Run(c, n) == [c |-> c, n |-> n]

RECURSIVE TextLength(_)
TextLength(text) == IF text = <<>> THEN 0 ELSE Head(text).n + TextLength(Tail(text))

\* text.replace(/\s+/g, ' ')
RECURSIVE CollapseRuns(_)
CollapseRuns(text) ==
  IF text = <<>> THEN <<>>
  ELSE IF Head(text).c = " "
  THEN IF Len(text) > 1 /\ text[2].c = " " THEN CollapseRuns(Tail(text))
       ELSE <<Run(" ", 1)>> \o CollapseRuns(Tail(text))
  ELSE <<Head(text)>> \o CollapseRuns(Tail(text))

\* text.replace(/\s+([.,;:!?])/g, '$1')
RECURSIVE DropSpaceBeforeMark(_)
DropSpaceBeforeMark(text) ==
  IF text = <<>> THEN <<>>
  ELSE IF Head(text).c = " " /\ Len(text) > 1 /\ text[2].c = "."
  THEN DropSpaceBeforeMark(Tail(text))
  ELSE <<Head(text)>> \o DropSpaceBeforeMark(Tail(text))

\* text.trim()
RECURSIVE TrimRuns(_)
TrimRuns(text) ==
  IF text # <<>> /\ Head(text).c = " " THEN TrimRuns(Tail(text))
  ELSE IF text # <<>> /\ text[Len(text)].c = " " THEN TrimRuns(SubSeq(text, 1, Len(text) - 1))
  ELSE text

\* text.substring(0, limit)
RECURSIVE SubstringRuns(_, _)
SubstringRuns(text, limit) ==
  IF text = <<>> \/ limit = 0 THEN <<>>
  ELSE IF Head(text).n >= limit THEN <<Run(Head(text).c, limit)>>
  ELSE <<Head(text)>> \o SubstringRuns(Tail(text), limit - Head(text).n)

\* cleanPolicyText(text) (privacy-scraper.js:203-217); after the first
\* replacement no line break is left for the second, and the replacements of
\* the quotes keep the length
cleanPolicyText(text) ==
  SubstringRuns(TrimRuns(DropSpaceBeforeMark(CollapseRuns(text))), 50000)

\* an element of a document: what it is (a tag, or the class it carries) and
\* its textContent
Element(kind, text) == [kind |-> kind, text |-> text]

\* a document: its elements in document order, none inside another; ok is
\* response.ok of the fetch that delivered it
Document(elements, ok) == [elements |-> elements, ok |-> ok]

unwantedSelectors ==
  {"script", "style", "nav", "header", "footer", ".navigation", ".menu", ".sidebar",
   ".advertisement", ".ad", ".cookie-banner", ".cookie-notice"}

contentSelectors ==
  <<"main", "article", "[role=\"main\"]", ".content", ".main-content", ".policy-content",
    ".privacy-policy", ".legal-content", "#content", "#main">>

\* the selector list of getCleanPageText's querySelectorAll(...).remove()
unwantedElements == {"script", "style", "nav", "header", "footer", "aside"}

mainContentSelectors ==
  <<"main", "article", "[role=\"main\"]", ".content", ".main-content", "#content", "#main">>

\* the document after the unwanted elements are removed
Remaining(elements, unwanted) == SelectSeq(elements, LAMBDA el : el.kind \notin unwanted)

\* body.textContent: the texts of the elements, one after the other
RECURSIVE BodyText(_)
BodyText(elements) ==
  IF elements = <<>> THEN <<>> ELSE Head(elements).text \o BodyText(Tail(elements))

\* the selectors of the list that select an element, in the order of the list
Present(elements, selectors) ==
  SelectSeq(selectors, LAMBDA selector : \E i \in DOMAIN elements : elements[i].kind = selector)

\* doc.querySelector(selector).textContent, for a selector that selects an element
QueryText(elements, selector) ==
  elements[CHOOSE i \in DOMAIN elements :
             /\ elements[i].kind = selector
             /\ \A k \in 1 .. (i - 1) : elements[k].kind # selector].text

\* contentText after the loop over the selectors and the fallback to the body
\* (privacy-scraper.js:181-196, test-runner.js:1566-1580)
ContentText(elements, selectors) ==
  LET present == Present(elements, selectors)
      contentText == IF present = <<>> THEN <<>> ELSE QueryText(elements, Head(present))
  IN IF TextLength(contentText) = 0 THEN BodyText(elements) ELSE contentText

extractTextFromHTML(doc) ==
  cleanPolicyText(ContentText(Remaining(doc.elements, unwantedSelectors), contentSelectors))

getCleanPageText(doc) ==
  SubstringRuns(TrimRuns(CollapseRuns(
    ContentText(Remaining(doc.elements, unwantedElements), mainContentSelectors))), 10000)

\* the html with script and style elements removed and every tag replaced by a blank
RECURSIVE TagsToBlanks(_)
TagsToBlanks(elements) ==
  IF elements = <<>> THEN <<>>
  ELSE (IF Head(elements).kind \in {"script", "style"} THEN <<>>
        ELSE <<Run(" ", 1)>> \o Head(elements).text \o <<Run(" ", 1)>>)
       \o TagsToBlanks(Tail(elements))

\* fetchPrivacyPolicyContent(url), for the document the URL delivers
fetchPrivacyPolicyContent(doc) ==
  IF ~doc.ok THEN ThrewError("HTTP 404")
  ELSE Ret(TrimRuns(CollapseRuns(TagsToBlanks(doc.elements))))

-----------------------------------------------------------------------------
(* Bounds and the inputs drawn within them *)

MaxExtraLen == 1      \* policy texts run up to 100 + MaxExtraLen characters
MaxFirstParty == 1    \* first-party cookies of a page, 0..MaxFirstParty
MaxThirdParty == 7    \* third-party counts tried on the fallbacks, 0..MaxThirdParty
MaxValueLen == 2      \* the texts substituted into prompts have up to MaxValueLen pieces
MaxInFlight == 2      \* analyses of the service worker in flight together
MaxMessages == 2      \* ANALYZE_SITE messages that arrive in a run
MaxTicks == 2         \* times the clock advances in a run
MaxAnchors == 3       \* anchors of a page
MaxCookies == 2       \* cookies chrome.cookies.getAll gives for a page
MaxElements == 2      \* elements of a document
MaxExcess == 1        \* how far the long texts run over the limits of the extractors
MaxClicks == 3        \* clicks on Analyze and Retry while the popup is open
MaxSent == 3          \* messages of other senders that reach the listener

\* a policy text of the given length
PolicyText(len) == Str("policy text", len)

PolicyTexts ==
  {Undef, PolicyText(0), PolicyText(99), PolicyText(100)}
    \cup {PolicyText(100 + k) : k \in 1..MaxExtraLen}

\* the cookieData object extractCookieData builds (part_000:6-12), as far as
\* the analysis reads it
CookieData(count, thirdParty) ==
  Obj([cookieCount |-> Num(count), thirdPartyCookies |-> Num(thirdParty)])

\* the cookie signals of the pipeline runs: none, a page without cookies, and
\* pages on either side of the third-party thresholds 5 and 10
PipeCookies ==
  {Undef, CookieData(0, 0)} \cup {CookieData(tp + MaxFirstParty, tp) : tp \in {0, 6, 11}}

PipeTexts == {Undef, PolicyText(0), PolicyText(99), PolicyText(100 + MaxExtraLen)}

AnalysisInputs ==
  {Obj([domain |-> Str("example.com", 11), url |-> Str("https://example.com/", 20),
        privacyPolicyText |-> text, cookies |-> cookies]) :
     text \in PipeTexts, cookies \in PipeCookies}
  \cup
  {Obj([url |-> Str("https://example.com/", 20),
        privacyPolicyText |-> PolicyText(100 + MaxExtraLen), cookies |-> Undef])}

\* ---- response texts ----

NotJSON == [json |-> FALSE, v |-> Undef]       \* e.g. "Mock AI response"
Text(v) == [json |-> TRUE, v |-> v]            \* the JSON text of v

\* the mock's four responses (part_001:313-346)
MockSummarizer ==
  Obj([summary |-> Str("This site collects personal data for analytics and marketing. Data may be shared with third parties.", 100),
       categories |-> Arr(<<Str("email", 5), Str("ip", 2), Str("device", 6)>>),
       retention_clauses |-> Arr(<<Str("24 months for analytics data", 28)>>)])
MockCookie ==
  Obj([first_party |-> Num(3), third_party |-> Num(7), tracking |-> Bool(TRUE),
       categories |-> Obj([analytics |-> Num(4), advertising |-> Num(3)])])
MockDeletion ==
  Obj([can_delete |-> Str("yes", 3),
       instructions |-> Str("Contact privacy@example.com to request data deletion", 52),
       links |-> Arr(<<Str("mailto:privacy@example.com", 26)>>),
       contacts |-> Arr(<<Str("privacy@example.com", 19)>>)])
MockRisk ==
  Obj([risk_score |-> Num(65), verdict |-> Str("CAUTION", 7),
       reasons |-> Arr(<<Str("Third-party tracking detected", 29), Str("Data sharing with partners", 26)>>),
       actions |-> Arr(<<Str("Review privacy settings", 23), Str("Consider ad blockers", 20)>>)])

\* obj without the property key
Omit(obj, key) == Obj([k \in (DOMAIN obj.f) \ {key} |-> obj.f[k]])
\* obj with the property key set to v
With(obj, key, v) == Obj([k \in (DOMAIN obj.f) \cup {key} |-> IF k = key THEN v ELSE obj.f[k]])

\* a response in the step's OUTPUT FORMAT (prompt-templates.js:17-22, 37, 52, 74)
WellFormed(templateName) ==
  CASE templateName = "SUMMARIZER" -> MockSummarizer
    [] templateName = "COOKIE_ANALYZER" ->
         With(MockCookie, "categories",
              Obj([marketing |-> Arr(<<Obj([name |-> Str("_fbp", 4), domain |-> Str(".example.com", 12)])>>)]))
    [] templateName = "DELETION_ANALYZER" -> MockDeletion
    [] OTHER -> MockRisk

\* the fields validateResponse requires of each step (prompt-templates.js:150-163)
RequiredFields(templateName) ==
  CASE templateName = "SUMMARIZER" -> {"summary", "categories"}
    [] templateName = "COOKIE_ANALYZER" -> {"first_party", "third_party"}
    [] templateName = "DELETION_ANALYZER" -> {"can_delete"}
    [] templateName = "RISK_SCORER" -> {"risk_score", "verdict", "reasons"}
    [] OTHER -> {}

\* what an AI may answer to a step's prompt: no JSON, JSON that is no object,
\* the well-formed answer, that answer less one required field, and answers
\* with values outside the prompt's ranges
AIResponses(templateName) ==
  {NotJSON, Text(Null), Text(WellFormed(templateName))}
  \cup {Text(Omit(WellFormed(templateName), k)) : k \in RequiredFields(templateName)}
  \cup
  CASE templateName = "SUMMARIZER" ->
         {Text(With(MockSummarizer, "summary", Str("", 0))),
          Text(With(MockSummarizer, "summary", Num(42))),
          Text(With(MockSummarizer, "categories", Arr(<<Str("email", 5), Num(1)>>))),
          Text(Obj([summary |-> Str("incomplete", 10)]))}
    [] templateName = "COOKIE_ANALYZER" ->
         {Text(MockCookie),
          Text(Obj([first_party |-> Num(2), third_party |-> Num(0)])),
          Text(With(MockCookie, "third_party", Str("7", 1)))}
    [] templateName = "DELETION_ANALYZER" ->
         {Text(Obj([can_delete |-> Str("no", 2)])),
          Text(With(MockDeletion, "can_delete", Str("maybe", 5)))}
    [] templateName = "RISK_SCORER" ->
         {Text(With(MockRisk, "risk_score", Num(150))),
          Text(With(MockRisk, "risk_score", Num(0 - 5))),
          Text(With(With(MockRisk, "risk_score", Num(20)), "verdict", Str("UNSAFE", 6))),
          Text(With(MockRisk, "verdict", Str("DANGER", 6))),
          Text(Omit(With(MockRisk, "reasons", Arr(<<>>)), "actions"))}
    [] OTHER -> {}

\* the mock AI answers by the words of the prompt (part_001:313-348): the risk
\* prompt holds the word "summarizer", the cookie prompt "cookie", and the
\* deletion prompt holds the policy text, which may hold either word
MockResponses(templateName) ==
  CASE templateName = "COOKIE_ANALYZER" -> {Text(MockCookie)}
    [] templateName = "DELETION_ANALYZER" -> {Text(MockSummarizer), Text(MockCookie), Text(MockDeletion)}
    [] OTHER -> {Text(MockSummarizer)}

-----------------------------------------------------------------------------
(* ai-client.js (part_001): the AI calls *)

\* attempt: which of the step's calls this one is; callAIPrompt and
\* callAISummarizer are each called from one place of a step, outside any loop
NoCall == [st |-> "none", api |-> "none", template |-> "none", response |-> NotJSON, attempt |-> 0]
Pending(api, templateName) ==
  [st |-> "pending", api |-> api, template |-> templateName, response |-> NotJSON, attempt |-> 1]
\* the call threw before any API was reached: 'Chrome AI APIs not available'
NotAvailable(templateName) ==
  [st |-> "rejected", api |-> "none", template |-> templateName, response |-> NotJSON, attempt |-> 1]

callAIPrompt(templateName) ==
  IF chromeAI.languageModel THEN Pending("languageModel", templateName)
  ELSE IF chromeAI.mockAI THEN Pending("mockAI", templateName)
  ELSE NotAvailable(templateName)

callAISummarizer(templateName) ==
  IF chromeAI.summarizer THEN Pending("summarizer", templateName)
  ELSE IF chromeAI.languageModel THEN callAIPrompt(templateName)
  ELSE NotAvailable(templateName)

\* The environment: a Chrome AI call answers with some text, fails, or never
\* settles; the mock always answers.
AIResolve ==
  /\ call.st = "pending" /\ call.api \in {"summarizer", "languageModel"}
  /\ \E r \in AIResponses(call.template) : call' = [call EXCEPT !.st = "resolved", !.response = r]
  /\ UNCHANGED <<analysisData, chromeAI, pc, summarizerResult, cookieResult, deletionResult,
                 riskResult, combinedData, history, finalResult, returned, tplVars, restVars>>

MockResolve ==
  /\ call.st = "pending" /\ call.api = "mockAI"
  /\ \E r \in MockResponses(call.template) : call' = [call EXCEPT !.st = "resolved", !.response = r]
  /\ UNCHANGED <<analysisData, chromeAI, pc, summarizerResult, cookieResult, deletionResult,
                 riskResult, combinedData, history, finalResult, returned, tplVars, restVars>>

AIReject ==
  /\ call.st = "pending" /\ call.api \in {"summarizer", "languageModel"}
  /\ call' = [call EXCEPT !.st = "rejected"]
  /\ UNCHANGED <<analysisData, chromeAI, pc, summarizerResult, cookieResult, deletionResult,
                 riskResult, combinedData, history, finalResult, returned, tplVars, restVars>>

AIHang ==
  /\ call.st = "pending" /\ call.api \in {"summarizer", "languageModel"}
  /\ call' = [call EXCEPT !.st = "hung"]
  /\ UNCHANGED <<analysisData, chromeAI, pc, summarizerResult, cookieResult, deletionResult,
                 riskResult, combinedData, history, finalResult, returned, tplVars, restVars>>

-----------------------------------------------------------------------------
(* ai-client.js (part_001): the four steps *)

\* the step's response passed validateResponse
Accepted(templateName, c) ==
  /\ c.st = "resolved"
  /\ ~validateResponse(templateName, c.response).threw
  /\ ToBoolean(validateResponse(templateName, c.response).v)
  /\ ~JSON_parse(c.response).threw

\* a step without its catch clause: a failure leaves the step as an error
StepResult_NoCatch(templateName, c, fallbackInput) ==
  IF Accepted(templateName, c) THEN JSON_parse(c.response) ELSE Threw

\* a step that parses the response without validating it
StepResult_SkipValidation(templateName, c, fallbackInput) ==
  IF c.st = "resolved" /\ ~JSON_parse(c.response).threw
  THEN JSON_parse(c.response)
  ELSE generateFallbackResponse(templateName, fallbackInput)

\* the try/catch of a step, once its AI call c has settled: the parsed
\* response if validateResponse accepts it, the step's fallback otherwise
StepResult(templateName, c, fallbackInput) ==
  IF Accepted(templateName, c)
  THEN JSON_parse(c.response)
  ELSE generateFallbackResponse(templateName, fallbackInput)

StepHow(templateName, c) ==
  IF c.st = "rejected" THEN "rejected"
  ELSE IF Accepted(templateName, c) THEN "ai" ELSE "invalid"

policyTextOf(data) == Prop(data, "privacyPolicyText")

\* console.log('Starting AI analysis for:', analysisData.domain) and the try
analyzePrivacyPolicy ==
  /\ pc = "idle"
  /\ pc' = "runSummarizer"
  /\ UNCHANGED <<analysisData, chromeAI, call, summarizerResult, cookieResult, deletionResult,
                 riskResult, combinedData, history, finalResult, returned, tplVars, restVars>>

TooShort(policyText) == ~ToBoolean(policyText) \/ policyText.n < 100

runSummarizer_short ==
  /\ pc = "runSummarizer"
  /\ TooShort(policyTextOf(analysisData))
  /\ LET r == generateFallbackResponse("SUMMARIZER", Obj([policyText |-> policyTextOf(analysisData)]))
     IN IF r.threw
        THEN pc' = "catch" /\ UNCHANGED <<summarizerResult, history>>
        ELSE /\ summarizerResult' = r.v
             /\ history' = [history EXCEPT !["SUMMARIZER"] = "short"]
             /\ pc' = "runCookieAnalysis"
  /\ UNCHANGED <<analysisData, chromeAI, call, cookieResult, deletionResult,
                 riskResult, combinedData, finalResult, returned, tplVars, restVars>>

runSummarizer_call ==
  /\ pc = "runSummarizer"
  /\ ~TooShort(policyTextOf(analysisData))
  /\ call' = callAISummarizer("SUMMARIZER")
  /\ pc' = "awaitSummarizer"
  /\ UNCHANGED <<analysisData, chromeAI, summarizerResult, cookieResult, deletionResult,
                 riskResult, combinedData, history, finalResult, returned, tplVars, restVars>>

runSummarizer_settle ==
  /\ pc = "awaitSummarizer"
  /\ call.st \in {"resolved", "rejected"}
  /\ LET r == StepResult("SUMMARIZER", call, Obj([policyText |-> policyTextOf(analysisData)]))
     IN IF r.threw
        THEN pc' = "catch" /\ UNCHANGED <<summarizerResult, history>>
        ELSE /\ summarizerResult' = r.v
             /\ history' = [history EXCEPT !["SUMMARIZER"] = StepHow("SUMMARIZER", call)]
             /\ pc' = "runCookieAnalysis"
  /\ call' = NoCall
  /\ UNCHANGED <<analysisData, chromeAI, cookieResult, deletionResult,
                 riskResult, combinedData, finalResult, returned, tplVars, restVars>>

runCookieAnalysis_call ==
  /\ pc = "runCookieAnalysis"
  /\ call' = callAIPrompt("COOKIE_ANALYZER")
  /\ pc' = "awaitCookieAnalysis"
  /\ UNCHANGED <<analysisData, chromeAI, summarizerResult, cookieResult, deletionResult,
                 riskResult, combinedData, history, finalResult, returned, tplVars, restVars>>

runCookieAnalysis_settle ==
  /\ pc = "awaitCookieAnalysis"
  /\ call.st \in {"resolved", "rejected"}
  /\ LET r == StepResult("COOKIE_ANALYZER", call, Obj([cookieData |-> Prop(analysisData, "cookies")]))
     IN IF r.threw
        THEN pc' = "catch" /\ UNCHANGED <<cookieResult, history>>
        ELSE /\ cookieResult' = r.v
             /\ history' = [history EXCEPT !["COOKIE_ANALYZER"] = StepHow("COOKIE_ANALYZER", call)]
             /\ pc' = "runDeletionAnalysis"
  /\ call' = NoCall
  /\ UNCHANGED <<analysisData, chromeAI, summarizerResult, deletionResult,
                 riskResult, combinedData, finalResult, returned, tplVars, restVars>>

runDeletionAnalysis_call ==
  /\ pc = "runDeletionAnalysis"
  /\ call' = callAIPrompt("DELETION_ANALYZER")
  /\ pc' = "awaitDeletionAnalysis"
  /\ UNCHANGED <<analysisData, chromeAI, summarizerResult, cookieResult, deletionResult,
                 riskResult, combinedData, history, finalResult, returned, tplVars, restVars>>

runDeletionAnalysis_settle ==
  /\ pc = "awaitDeletionAnalysis"
  /\ call.st \in {"resolved", "rejected"}
  /\ LET r == StepResult("DELETION_ANALYZER", call, Obj([policyText |-> policyTextOf(analysisData)]))
     IN IF r.threw
        THEN pc' = "catch" /\ UNCHANGED <<deletionResult, history>>
        ELSE /\ deletionResult' = r.v
             /\ history' = [history EXCEPT !["DELETION_ANALYZER"] = StepHow("DELETION_ANALYZER", call)]
             /\ pc' = "runRiskAssessment"
  /\ call' = NoCall
  /\ UNCHANGED <<analysisData, chromeAI, summarizerResult, cookieResult,
                 riskResult, combinedData, finalResult, returned, tplVars, restVars>>

\* the argument analyzePrivacyPolicy builds for runRiskAssessment
RiskInput ==
  Obj([summarizer |-> summarizerResult,
       cookies |-> cookieResult,
       deletion |-> deletionResult,
       domain |-> Prop(analysisData, "domain"),
       url |-> Prop(analysisData, "url")])

\* runRiskAssessment entered one step early, before the deletion analysis
runRiskAssessment_early ==
  /\ pc \in {"runDeletionAnalysis", "runRiskAssessment"}
  /\ combinedData' = RiskInput
  /\ call' = callAIPrompt("RISK_SCORER")
  /\ pc' = "awaitRiskAssessment"
  /\ UNCHANGED <<analysisData, chromeAI, summarizerResult, cookieResult, deletionResult,
                 riskResult, history, finalResult, returned, tplVars, restVars>>

runRiskAssessment_call ==
  /\ pc = "runRiskAssessment"
  /\ combinedData' = RiskInput
  /\ call' = callAIPrompt("RISK_SCORER")
  /\ pc' = "awaitRiskAssessment"
  /\ UNCHANGED <<analysisData, chromeAI, summarizerResult, cookieResult, deletionResult,
                 riskResult, history, finalResult, returned, tplVars, restVars>>

runRiskAssessment_settle ==
  /\ pc = "awaitRiskAssessment"
  /\ call.st \in {"resolved", "rejected"}
  /\ LET r == StepResult("RISK_SCORER", call, combinedData)
     IN IF r.threw
        THEN pc' = "catch" /\ UNCHANGED <<riskResult, history>>
        ELSE /\ riskResult' = r.v
             /\ history' = [history EXCEPT !["RISK_SCORER"] = StepHow("RISK_SCORER", call)]
             /\ pc' = "combine"
  /\ call' = NoCall
  /\ UNCHANGED <<analysisData, chromeAI, summarizerResult, cookieResult, deletionResult,
                 combinedData, finalResult, returned, tplVars, restVars>>

\* the argument analyzePrivacyPolicy builds for combineAnalysisResults
CombineInput ==
  Obj([domain |-> Prop(analysisData, "domain"),
       url |-> Prop(analysisData, "url"),
       summarizer |-> summarizerResult,
       cookies |-> cookieResult,
       deletion |-> deletionResult,
       risk |-> riskResult,
       timestamp |-> DateNow])

combine ==
  /\ pc = "combine"
  /\ LET r == combineAnalysisResults(CombineInput)
     IN IF r.threw
        THEN pc' = "catch" /\ UNCHANGED <<finalResult, returned>>
        ELSE finalResult' = r.v /\ returned' = "report" /\ pc' = "done"
  /\ UNCHANGED <<analysisData, chromeAI, call, summarizerResult, cookieResult, deletionResult,
                 riskResult, combinedData, history, tplVars, restVars>>

\* the catch clause of analyzePrivacyPolicy rethrowing instead of falling back
catch_rethrow ==
  /\ pc = "catch"
  /\ returned' = "error"
  /\ pc' = "done"
  /\ UNCHANGED <<analysisData, chromeAI, call, summarizerResult, cookieResult, deletionResult,
                 riskResult, combinedData, history, finalResult, tplVars, restVars>>

catch ==
  /\ pc = "catch"
  /\ finalResult' = generateFallbackAnalysis(analysisData)
  /\ returned' = "report"
  /\ pc' = "done"
  /\ UNCHANGED <<analysisData, chromeAI, call, summarizerResult, cookieResult, deletionResult,
                 riskResult, combinedData, history, tplVars, restVars>>

\* the pure-function variables, at rest while the pipeline runs
TplIdle ==
  /\ tplName = "none"
  /\ tplInput = Undef
  /\ tplInput2 = Undef
  /\ tplResponse = NotJSON
  /\ tplOut = [fallback |-> Threw, fallback2 |-> Threw, valid |-> Threw, roundTrip |-> Threw,
               fallbackAnalysis |-> Threw]
  /\ tplPc = "off"

\* formatPrompt's variables, at rest
PromptIdle ==
  /\ fmtName = "none"
  /\ fmtVariables = <<>>
  /\ fmtOut = Threw
  /\ fmtPc = "off"

\* the keys of chrome.storage.local the model follows: two domains, and the
\* text an undefined domain is spelled as in `cache_${domain}`
Domains == {"example.com", "shop.example"}
StorageKeys == Domains \cup {"undefined"}

\* the message slots: analyses that can be in flight together
Slots == 1 .. MaxInFlight

\* storage without the entry cache_<domain>
NoEntry == [result |-> Null, timestamp |-> 0]

\* a slot no message has used
IdleRequest ==
  [pc |-> "idle", siteData |-> Undef, now |-> 0, lastRead |-> [k \in StorageKeys |-> 0],
   analysisResult |-> Undef, cacheTime |-> 0, outcome |-> "none", response |-> Undef,
   atCall |-> NoEntry]

\* the service worker's variables, at rest
SiteIdle ==
  /\ clock = 1
  /\ storageCache = [k \in StorageKeys |-> NoEntry]
  /\ storageLast = [k \in StorageKeys |-> 0]
  /\ request = [p \in Slots |-> IdleRequest]
  /\ started = 0
  /\ ticks = 0

\* the content script's variables, at rest
ContentIdle ==
  /\ csFn = "none"
  /\ csInput = <<>>
  /\ csOut = <<>>
  /\ csPc = "off"

\* the popup closed, no message sent
PopupIdle ==
  /\ popup = [pc |-> "closed", currentTab |-> FALSE, isAnalyzing |-> FALSE, shown |-> "main",
              clicks |-> 0, runs |-> <<>>]
  /\ listener = <<>>

RestIdle == PromptIdle /\ SiteIdle /\ ContentIdle /\ PopupIdle

\* the pipeline variables, at rest while the pure functions are applied
PipeIdle ==
  /\ analysisData = Undef
  /\ chromeAI = [summarizer |-> FALSE, languageModel |-> FALSE, mockAI |-> FALSE]
  /\ pc = "off"
  /\ call = NoCall
  /\ summarizerResult = Undef
  /\ cookieResult = Undef
  /\ deletionResult = Undef
  /\ riskResult = Undef
  /\ combinedData = Undef
  /\ history = [t \in TemplateNames |-> "none"]
  /\ finalResult = Undef
  /\ returned = "no"

Init ==
  /\ analysisData \in AnalysisInputs
  /\ chromeAI \in [summarizer : BOOLEAN, languageModel : BOOLEAN, mockAI : BOOLEAN]
  /\ pc = "idle"
  /\ call = NoCall
  /\ summarizerResult = Undef
  /\ cookieResult = Undef
  /\ deletionResult = Undef
  /\ riskResult = Undef
  /\ combinedData = Undef
  /\ history = [t \in TemplateNames |-> "none"]
  /\ finalResult = Undef
  /\ returned = "no"
  /\ TplIdle
  /\ RestIdle

Next ==
  \/ analyzePrivacyPolicy
  \/ runSummarizer_short
  \/ runSummarizer_call
  \/ runSummarizer_settle
  \/ runCookieAnalysis_call
  \/ runCookieAnalysis_settle
  \/ runDeletionAnalysis_call
  \/ runDeletionAnalysis_settle
  \/ runRiskAssessment_call
  \/ runRiskAssessment_settle
  \/ combine
  \/ catch
  \/ AIResolve
  \/ MockResolve
  \/ AIReject
  \/ AIHang

Spec == Init /\ [][Next]_vars

\* The event loop runs every continuation whose promise has settled, and an
\* AI call that is pending does one of the things the environment can do.
FairSpec == Spec /\ WF_vars(Next)

-----------------------------------------------------------------------------
(* The service worker (test-runner.js:868-1181): its heuristic analysis *)

\* the number of digits of a count below 100
Digits(k) == IF k < 10 THEN 1 ELSE 2

\* a policy counted as found whenever the links are a list, an empty one too
HasPrivacyPolicy_AnyList(data) == ToBoolean(Prop(data, "privacyPolicyLinks"))

\* hasPrivacyPolicy, as a condition sees it
HasPrivacyPolicy(data) ==
  LET links == Prop(data, "privacyPolicyLinks")
  IN ToBoolean(links) /\ Gt(LengthOf(links), 0)

\* the heuristic score without the third-party bonuses
HeuristicRiskScore_NoThirdParty(data) ==
  30 + (IF ~HasPrivacyPolicy(data) THEN 20 ELSE 0)
     + (IF TooShort(Prop(data, "privacyPolicyText")) THEN 15 ELSE 0)

\* the heuristic score with a bonus of 5 for a short policy text
HeuristicRiskScore_SmallTextBonus(data) ==
  LET thirdPartyCount == OrElse(OptProp(Prop(data, "cookies"), "thirdPartyCookies"), Num(0))
  IN 30 + (IF Gt(thirdPartyCount, 5) THEN 30 ELSE 0)
        + (IF Gt(thirdPartyCount, 10) THEN 20 ELSE 0)
        + (IF ~HasPrivacyPolicy(data) THEN 20 ELSE 0)
        + (IF TooShort(Prop(data, "privacyPolicyText")) THEN 5 ELSE 0)

\* riskScore of the service worker's analyzePrivacyPolicy, before the clamp
HeuristicRiskScore(data) ==
  LET thirdPartyCount == OrElse(OptProp(Prop(data, "cookies"), "thirdPartyCookies"), Num(0))
  IN 30 + (IF Gt(thirdPartyCount, 5) THEN 30 ELSE 0)
        + (IF Gt(thirdPartyCount, 10) THEN 20 ELSE 0)
        + (IF ~HasPrivacyPolicy(data) THEN 20 ELSE 0)
        + (IF TooShort(Prop(data, "privacyPolicyText")) THEN 15 ELSE 0)

\* the service worker's inline analyzePrivacyPolicy(data)
analyzePrivacyPolicy_heuristic(data) ==
  LET cookieCount == OrElse(OptProp(Prop(data, "cookies"), "cookieCount"), Num(0))
      thirdPartyCount == OrElse(OptProp(Prop(data, "cookies"), "thirdPartyCookies"), Num(0))
      thirdPartyDomains == OrElse(OptProp(Prop(data, "cookies"), "thirdPartyDomains"), Arr(<<>>))
      hasPrivacyPolicy == HasPrivacyPolicy(data)
      riskScore == HeuristicRiskScore(data)
      verdict == IF riskScore < 40 THEN "SAFE"
                 ELSE IF riskScore < 70 THEN "CAUTION" ELSE "UNSAFE"
      banner == Prop(data, "cookieBannerData")
      reasons ==
        (IF Gt(thirdPartyCount, 5) THEN <<Str("High number of tracking cookies", 31)>> ELSE <<>>)
        \o (IF ~hasPrivacyPolicy THEN <<Str("No privacy policy found", 23)>> ELSE <<>>)
        \o (IF ToBoolean(OptProp(banner, "hasBanner")) /\ ~ToBoolean(OptProp(banner, "hasRejectButton"))
            THEN <<Str("Cookie banner without reject option", 35)>> ELSE <<>>)
  IN Obj(
    [domain |-> Prop(data, "domain"),
     url |-> Prop(data, "url"),
     summary |-> IF hasPrivacyPolicy
                 THEN Str("This site has n cookies (m third-party). Privacy policy found.",
                          60 + Digits(cookieCount.n) + Digits(thirdPartyCount.n))
                 ELSE Str("This site has n cookies (m third-party). No privacy policy detected.",
                          66 + Digits(cookieCount.n) + Digits(thirdPartyCount.n)),
     data_use |-> Arr(<<Obj([type |-> Str("cookies", 7),
                             purpose |-> Str("tracking and analytics", 22),
                             retention |-> Str("varies", 6),
                             shared_with |-> IF Gt(thirdPartyCount, 0)
                                             THEN Arr(<<Str("third parties", 13)>>) ELSE Arr(<<>>)])>>),
     deletion |-> Obj([can_user_delete |-> IF hasPrivacyPolicy THEN Str("unknown", 7) ELSE Str("no", 2),
                       how |-> IF hasPrivacyPolicy
                               THEN Str("Check privacy policy for details", 32)
                               ELSE Str("No privacy policy available", 27),
                       contacts_found |-> Arr(<<>>)]),
     cookies |-> Obj([cookie_count |-> cookieCount,
                      third_party_cookies |-> thirdPartyCount,
                      thirdPartyDomains |-> thirdPartyDomains,
                      tracking_cookies_detected |-> Bool(Gt(thirdPartyCount, 0)),
                      cookies_summary |-> Arr(<<>>)]),
     risk_score |-> Num(Min(riskScore, 100)),
     verdict |-> VerdictStr(verdict),
     reasons |-> Arr(reasons),
     actions |-> Arr(<<IF Gt(thirdPartyCount, 0)
                       THEN Str("Consider blocking third-party cookies", 37)
                       ELSE Str("Cookie usage appears minimal", 28),
                       IF hasPrivacyPolicy
                       THEN Str("Review privacy policy manually", 30)
                       ELSE Str("Request privacy information from site", 37)>>),
     confidence |-> Tenths(6),
     timestamp |-> DateNow])

\* the signals analyzeSite hands to the heuristic analysis
SiteCookies ==
  {Undef, CookieData(0, 0), CookieData(10, 8)} \cup {CookieData(tp + 2, tp) : tp \in {5, 6, 10, 11}}
SiteLinks == {Undef, Arr(<<>>), Arr(<<Str("https://example.com/privacy", 27)>>)}
SiteTexts == {Str("", 0), PolicyText(99), PolicyText(100)}
SiteBanners ==
  {Undef} \cup {Obj([hasBanner |-> Bool(TRUE), hasRejectButton |-> Bool(b)]) : b \in BOOLEAN}

HeuristicInputs ==
  {Obj([domain |-> Str("example.com", 11), url |-> Str("https://example.com/", 20),
        privacyPolicyText |-> text, privacyPolicyLinks |-> links,
        cookies |-> cookies, cookieBannerData |-> banner]) :
     text \in SiteTexts, links \in SiteLinks, cookies \in SiteCookies, banner \in SiteBanners}

-----------------------------------------------------------------------------
(* The functions of prompt-templates.js applied to drawn inputs *)

\* every response text of the model, tried on every template name
AllResponses ==
  UNION {AIResponses(t) : t \in TemplateNames}
    \cup {Text(Num(42)), Text(Str("Mock AI response", 16)), Text(Arr(<<>>)), Text(EmptyObj)}

\* the signal data a fallback may be handed: whole, partial, empty or absent
CookieSignals ==
  {Undef, Null, EmptyObj}
    \cup {Obj([cookieCount |-> Num(c)]) : c \in 0..MaxFirstParty}
    \cup {Obj([thirdPartyCookies |-> Num(tp)]) : tp \in {0, MaxThirdParty}}
    \cup {CookieData(tp + fp, tp) : tp \in {0, 1, MaxThirdParty}, fp \in 0..MaxFirstParty}

CookieResults ==
  {Undef, Null, EmptyObj}
    \cup {Obj([first_party |-> Num(MaxFirstParty), third_party |-> Num(tp)]) : tp \in 0..MaxThirdParty}
    \cup {Obj([first_party |-> Num(2), third_party |-> Num(8)])}

DeletionResults ==
  {Undef, Null, EmptyObj}
    \cup {Obj([can_delete |-> d]) :
            d \in {Str("yes", 3), Str("no", 2), Str("partial", 7), Str("unknown", 7)}}

FallbackInputs(templateName) ==
  CASE templateName = "COOKIE_ANALYZER" ->
         {EmptyObj} \cup {Obj([cookieData |-> c]) : c \in CookieSignals}
    [] templateName = "RISK_SCORER" ->
         {EmptyObj}
           \cup {Obj([cookies |-> c, deletion |-> d]) : c \in CookieResults, d \in DeletionResults}
    [] OTHER ->
         {EmptyObj} \cup {Obj([policyText |-> x]) : x \in PolicyTexts}

NotRun == [threw |-> FALSE, v |-> Str("not run", 0)]

InitTemplates ==
  /\ PipeIdle
  /\ RestIdle
  /\ tplOut = [fallback |-> NotRun, fallback2 |-> NotRun, valid |-> NotRun, roundTrip |-> NotRun,
               fallbackAnalysis |-> NotRun]
  /\ \/ /\ tplPc = "validate"
        /\ tplName \in TemplateNames \cup {"UNKNOWN"}
        /\ tplResponse \in AllResponses
        /\ tplInput = EmptyObj
        /\ tplInput2 = EmptyObj
     \/ /\ tplPc = "fallback"
        /\ tplName \in TemplateNames \cup {"UNKNOWN"}
        /\ tplResponse = NotJSON
        /\ tplInput \in FallbackInputs(tplName)
        /\ tplInput2 \in FallbackInputs(tplName)
     \/ /\ tplPc = "heuristic"
        /\ tplName = "heuristic"
        /\ tplResponse = NotJSON
        /\ tplInput \in HeuristicInputs
        /\ tplInput2 \in {With(tplInput, "cookies", c) : c \in SiteCookies}

\* validateResponse(tplName, tplResponse)
ApplyValidateResponse ==
  /\ tplPc = "validate"
  /\ tplOut' = [tplOut EXCEPT !.valid = validateResponse(tplName, tplResponse)]
  /\ tplPc' = "validated"
  /\ UNCHANGED <<pipeVars, restVars, tplName, tplInput, tplInput2, tplResponse>>

\* generateFallbackResponse(tplName, tplInput), and the same of tplInput2
ApplyFallbackResponse ==
  /\ tplPc = "fallback"
  /\ tplOut' = [tplOut EXCEPT !.fallback = generateFallbackResponse(tplName, tplInput),
                              !.fallback2 = generateFallbackResponse(tplName, tplInput2)]
  /\ tplPc' = "fellBack"
  /\ UNCHANGED <<pipeVars, restVars, tplName, tplInput, tplInput2, tplResponse>>

\* validateResponse(tplName, JSON.stringify(fallback))
ApplyRoundTrip ==
  /\ tplPc = "fellBack"
  /\ ~tplOut.fallback.threw
  /\ tplResponse' = JSON_stringify(tplOut.fallback.v)
  /\ tplOut' = [tplOut EXCEPT !.roundTrip = validateResponse(tplName, JSON_stringify(tplOut.fallback.v))]
  /\ tplPc' = "roundTripped"
  /\ UNCHANGED <<pipeVars, restVars, tplName, tplInput, tplInput2>>

\* the service worker's analyzePrivacyPolicy(tplInput), and the same of
\* tplInput2; generateFallbackAnalysis(tplInput) of the AI client
ApplyHeuristic ==
  /\ tplPc = "heuristic"
  /\ tplOut' = [tplOut EXCEPT !.fallback = Ret(analyzePrivacyPolicy_heuristic(tplInput)),
                              !.fallback2 = Ret(analyzePrivacyPolicy_heuristic(tplInput2)),
                              !.fallbackAnalysis = Ret(generateFallbackAnalysis(tplInput))]
  /\ tplPc' = "analyzed"
  /\ UNCHANGED <<pipeVars, restVars, tplName, tplInput, tplInput2, tplResponse>>

NextTemplates ==
  \/ ApplyValidateResponse
  \/ ApplyFallbackResponse
  \/ ApplyRoundTrip
  \/ ApplyHeuristic

SpecTemplates == InitTemplates /\ [][NextTemplates]_vars

-----------------------------------------------------------------------------
(* formatPrompt applied to drawn inputs *)

\* the pieces a substituted text is made of: ordinary characters, the two
\* replacement patterns, a placeholder of the risk template, and a quote
PromptPieces == {"w", "$$", "$&", "{domain}", "\""}

RECURSIVE TextsUpTo(_)
TextsUpTo(len) ==
  IF len = 0 THEN {<<>>}
  ELSE LET shorter == TextsUpTo(len - 1)
       IN shorter \cup {Append(x, c) : x \in {y \in shorter : Len(y) = len - 1}, c \in PromptPieces}

PromptTexts == TextsUpTo(MaxValueLen)

Entry(key, value) == [key |-> key, value |-> value]

\* the variable maps the callers build (part_001:62, 85, 107, 129-135) and
\* the one of the test 'Prompt Template Formatting' (test-runner.js:184-187)
VariableMaps ==
  {<<>>}
  \cup {<<Entry("policyText", StrOf(x))>> : x \in PromptTexts}
  \cup {<<Entry("policyText", StrOf(x)), Entry("domain", Str("example.com", 11))>> : x \in PromptTexts}
  \cup {<<Entry("cookieData", c)>> : c \in {Undef, Null, CookieData(10, 8)}}
  \cup {<<Entry("summarizerResult", With(MockSummarizer, "summary", StrOf(x))),
          Entry("cookieResult", MockCookie),
          Entry("deletionResult", MockDeletion),
          Entry("domain", Str("example.com", 11)),
          Entry("url", Str("https://example.com/", 20))>> : x \in PromptTexts}

InitPrompt ==
  /\ PipeIdle
  /\ TplIdle
  /\ SiteIdle
  /\ ContentIdle
  /\ PopupIdle
  /\ fmtName \in TemplateNames \cup {"UNKNOWN", "undefined", "constructor", "toString"}
  /\ fmtVariables \in VariableMaps
  /\ fmtOut = NotRun
  /\ fmtPc = "format"

\* formatPrompt(fmtName, fmtVariables)
ApplyFormatPrompt ==
  /\ fmtPc = "format"
  /\ fmtOut' = formatPrompt(fmtName, fmtVariables)
  /\ fmtPc' = "formatted"
  /\ UNCHANGED <<pipeVars, tplVars, siteVars, contentVars, popupVars, fmtName, fmtVariables>>

NextPrompt == ApplyFormatPrompt

SpecPrompt == InitPrompt /\ [][NextPrompt]_vars

-----------------------------------------------------------------------------
(* The service worker (test-runner.js:929-1145): analyzeSite, its cache and *)
(* its rate limit                                                            *)

(* Every await of analyzeSite that waits for chrome.storage or for the      *)
(* network ends a step: other messages are handled in between.  The await   *)
(* of the heuristic analysis waits for nothing, so the analysis and the     *)
(* call of cacheResult, with its Date.now(), belong to the step before.     *)

CACHE_TTL == 24 * 60 * 60 * 1000
RATE_LIMIT_DELAY == 10 * 1000

\* the amounts the clock advances by: either side of the rate limit's delay
\* and of the cache's time to live
ClockSteps == {RATE_LIMIT_DELAY - 1, RATE_LIMIT_DELAY, CACHE_TTL + 1}

isExpired(timestamp) == clock - timestamp > CACHE_TTL

\* the text `${domain}` of a storage key
KeyOf(domain) == IF domain.t = "string" THEN domain.s ELSE "undefined"

\* the sentences the pages are made of; each ends with a full stop
PageSentences == {"Welcome to our shop", "We use cookies to improve your experience"}
\* the ones that hold one of the privacyKeywords
PrivacySentences == {"We use cookies to improve your experience"}

RECURSIVE SumLen(_)
SumLen(sentences) ==
  IF sentences = <<>> THEN 0 ELSE Len(Head(sentences)) + SumLen(Tail(sentences))

\* a page text: its sentences in a, its length in n
Page(sentences) ==
  [t |-> "string", n |-> SumLen(sentences) + Len(sentences), s |-> "page content", a |-> sentences]

\* pageContent.substring(0, 5000); the pages of the model are shorter
Substring5000(pageContent) == [pageContent EXCEPT !.n = Min(pageContent.n, 5000)]

extractPrivacyTextFromPage(pageContent) ==
  IF Nullish(pageContent) THEN Threw
  ELSE LET privacySentences == SelectSeq(pageContent.a, LAMBDA x : x \in PrivacySentences)
           joined == IF privacySentences = <<>> THEN 0
                     ELSE SumLen(privacySentences) + 2 * (Len(privacySentences) - 1)
       IN Ret(Str("privacy sentences", Min(joined, 2000)))

\* what fetchPrivacyPolicyContent resolves with: a policy of 100 characters,
\* which the heuristic does not count as short
FetchedTexts == {PolicyText(100)}

\* message.data of the ANALYZE_SITE messages: a page with a policy link and
\* tracking cookies, a bare page of another domain, and a message without a
\* domain and without a page text
SiteMessages ==
  {Obj([domain |-> Str("example.com", 11), url |-> Str("https://example.com/", 20),
        pageContent |-> Page(<<"Welcome to our shop", "We use cookies to improve your experience">>),
        privacyPolicyLinks |-> Arr(<<Str("https://example.com/privacy", 27)>>),
        cookies |-> CookieData(10, 8), cookieBannerData |-> Undef]),
   Obj([domain |-> Str("shop.example", 12), url |-> Str("https://shop.example/", 21),
        pageContent |-> Page(<<>>), privacyPolicyLinks |-> Arr(<<>>),
        cookies |-> CookieData(0, 0), cookieBannerData |-> Undef]),
   Obj([url |-> Str("https://example.com/", 20)])}

DomainKey(p) == KeyOf(Prop(request[p].siteData, "domain"))

\* analyzeSite returns or throws
Finish(p, outcome, response) ==
  request' = [request EXCEPT ![p] =
                [IdleRequest EXCEPT !.pc = "done", !.siteData = request[p].siteData,
                                    !.now = request[p].now, !.atCall = request[p].atCall,
                                    !.outcome = outcome, !.response = response]]

\* test-runner.js:1027-1046, with the privacy text settled: analysisData and
\* the heuristic analysis of it; a page text that is undefined throws
AnalysisOf(siteData, privacyPolicyText) ==
  LET pageContent == Prop(siteData, "pageContent")
  IN IF privacyPolicyText.threw \/ Nullish(pageContent)
     THEN Threw
     ELSE Ret(analyzePrivacyPolicy_heuristic(
                Obj([domain |-> Prop(siteData, "domain"),
                     url |-> Prop(siteData, "url"),
                     privacyPolicyText |-> privacyPolicyText.v,
                     privacyPolicyLinks |-> Prop(siteData, "privacyPolicyLinks"),
                     cookies |-> Prop(siteData, "cookies"),
                     cookieBannerData |-> Prop(siteData, "cookieBannerData"),
                     pageContent |-> Substring5000(pageContent)])))

\* test-runner.js:1027-1049: the analysis, and the cache entry cacheResult builds
Analyze(p, privacyPolicyText) ==
  LET analysisResult == AnalysisOf(request[p].siteData, privacyPolicyText)
  IN IF analysisResult.threw
     THEN Finish(p, "error", Threw)
     ELSE request' = [request EXCEPT ![p].pc = "cacheResult",
                                     ![p].analysisResult = analysisResult.v,
                                     ![p].cacheTime = clock]

\* a message ANALYZE_SITE arrives (test-runner.js:953-957); it takes the first
\* slot that holds no analysis in flight
onMessage_ANALYZE_SITE(p) ==
  /\ request[p].pc \in {"idle", "done"}
  /\ \A q \in Slots : q < p => request[q].pc \notin {"idle", "done"}
  /\ started < MaxMessages
  /\ \E siteData \in SiteMessages :
       LET entry == storageCache[KeyOf(Prop(siteData, "domain"))]
       IN request' = [request EXCEPT ![p] =
            [IdleRequest EXCEPT !.pc = "getLastAnalysisTime", !.siteData = siteData,
                                !.atCall = IF entry # NoEntry /\ ~isExpired(entry.timestamp)
                                           THEN entry ELSE NoEntry]]
  /\ started' = started + 1
  /\ UNCHANGED <<clock, storageCache, storageLast, ticks>>

\* test-runner.js:1002-1007: the rate limit
getLastAnalysisTime(p) ==
  /\ request[p].pc = "getLastAnalysisTime"
  /\ LET lastAnalysis == storageLast[DomainKey(p)]
         now == clock
     IN IF lastAnalysis # 0 /\ now - lastAnalysis < RATE_LIMIT_DELAY
        THEN Finish(p, "rateLimited", ThrewError("Rate limited. Please wait n seconds."))
        ELSE request' = [request EXCEPT ![p].pc = "getCachedResult", ![p].now = now]
  /\ UNCHANGED <<clock, storageCache, storageLast, started, ticks>>

\* test-runner.js:1010-1032: the cache, and the privacy text of a page without links
getCachedResult(p) ==
  /\ request[p].pc = "getCachedResult"
  /\ LET cached == storageCache[DomainKey(p)]
         privacyPolicyLinks == Prop(request[p].siteData, "privacyPolicyLinks")
     IN IF cached # NoEntry /\ ~isExpired(cached.timestamp)
        THEN Finish(p, "cached", Ret(cached.result))
        ELSE IF ToBoolean(privacyPolicyLinks) /\ Gt(LengthOf(privacyPolicyLinks), 0)
        THEN request' = [request EXCEPT ![p].pc = "fetch"]
        ELSE Analyze(p, extractPrivacyTextFromPage(Prop(request[p].siteData, "pageContent")))
  /\ UNCHANGED <<clock, storageCache, storageLast, started, ticks>>

\* test-runner.js:1022: fetchPrivacyPolicyContent resolves
fetch_resolve(p) ==
  /\ request[p].pc = "fetch"
  /\ \E text \in FetchedTexts : Analyze(p, Ret(text))
  /\ UNCHANGED <<clock, storageCache, storageLast, started, ticks>>

\* test-runner.js:1024-1028: fetchPrivacyPolicyContent rejects
fetch_reject(p) ==
  /\ request[p].pc = "fetch"
  /\ Analyze(p, extractPrivacyTextFromPage(Prop(request[p].siteData, "pageContent")))
  /\ UNCHANGED <<clock, storageCache, storageLast, started, ticks>>

\* test-runner.js:1113-1115: the cache entry is stored
cacheResult(p) ==
  /\ request[p].pc = "cacheResult"
  /\ storageCache' = [storageCache EXCEPT ![DomainKey(p)] =
                        [result |-> request[p].analysisResult, timestamp |-> request[p].cacheTime]]
  /\ request' = [request EXCEPT ![p].pc = "updateLastAnalysisTime_get"]
  /\ UNCHANGED <<clock, storageLast, started, ticks>>

\* test-runner.js:1140-1141: lastAnalysis is read
updateLastAnalysisTime_get(p) ==
  /\ request[p].pc = "updateLastAnalysisTime_get"
  /\ request' = [request EXCEPT ![p].pc = "updateLastAnalysisTime_set", ![p].lastRead = storageLast]
  /\ UNCHANGED <<clock, storageCache, storageLast, started, ticks>>

\* test-runner.js:1142-1144 and 1054: lastAnalysis is stored, analyzeSite returns
updateLastAnalysisTime_set(p) ==
  /\ request[p].pc = "updateLastAnalysisTime_set"
  /\ storageLast' = [request[p].lastRead EXCEPT ![DomainKey(p)] = request[p].now]
  /\ Finish(p, "analyzed", Ret(request[p].analysisResult))
  /\ UNCHANGED <<clock, storageCache, started, ticks>>

\* time passes
Tick ==
  /\ ticks < MaxTicks
  /\ \E d \in ClockSteps : clock' = clock + d
  /\ ticks' = ticks + 1
  /\ UNCHANGED <<storageCache, storageLast, request, started>>

InitSite ==
  /\ PipeIdle
  /\ TplIdle
  /\ PromptIdle
  /\ ContentIdle
  /\ SiteIdle
  /\ PopupIdle

NextSite ==
  \/ \E p \in Slots : onMessage_ANALYZE_SITE(p) /\ UNCHANGED <<pipeVars, tplVars, promptVars, contentVars, popupVars>>
  \/ \E p \in Slots : getLastAnalysisTime(p) /\ UNCHANGED <<pipeVars, tplVars, promptVars, contentVars, popupVars>>
  \/ \E p \in Slots : getCachedResult(p) /\ UNCHANGED <<pipeVars, tplVars, promptVars, contentVars, popupVars>>
  \/ \E p \in Slots : fetch_resolve(p) /\ UNCHANGED <<pipeVars, tplVars, promptVars, contentVars, popupVars>>
  \/ \E p \in Slots : fetch_reject(p) /\ UNCHANGED <<pipeVars, tplVars, promptVars, contentVars, popupVars>>
  \/ \E p \in Slots : cacheResult(p) /\ UNCHANGED <<pipeVars, tplVars, promptVars, contentVars, popupVars>>
  \/ \E p \in Slots : updateLastAnalysisTime_get(p) /\ UNCHANGED <<pipeVars, tplVars, promptVars, contentVars, popupVars>>
  \/ \E p \in Slots : updateLastAnalysisTime_set(p) /\ UNCHANGED <<pipeVars, tplVars, promptVars, contentVars, popupVars>>
  \/ Tick /\ UNCHANGED <<pipeVars, tplVars, promptVars, contentVars, popupVars>>

SpecSite == InitSite /\ [][NextSite]_vars

-----------------------------------------------------------------------------
(* The functions of the content script and of the utilities, applied to drawn inputs *)

\* The tab listener of the service worker (test-runner.js:1156-1181)

\* new URL(url).hostname of an absolute URL, as chrome.tabs reports it
URLHostname(url) ==
  LET rest == SubstringFrom(url, FirstIndex(url, ":") + 2)
  IN SubSeq(rest, 1, FirstIndex(rest, "/") - 1)

\* list?.includes(domain), for a list of the storage that may be missing
ListIncludes(list, domain) ==
  ~Nullish(list) /\ \E i \in DOMAIN list.a : list.a[i] = Str(domain, Len(domain))

\* the listener with the allowlist consulted before the blocklist
onUpdated_AllowlistFirst(changeInfo, tab, settings) ==
  /\ changeInfo.status = "complete" /\ tab.url # "" /\ ~StartsWith(tab.url, "chrome://")
  /\ ToBoolean(settings.autoScan)
  /\ LET domain == URLHostname(tab.url)
     IN \/ ListIncludes(settings.allowlist, domain)
        \/ /\ ~ListIncludes(settings.blocklist, domain)
           /\ ~(~Nullish(settings.allowlist) /\ Len(settings.allowlist.a) > 0)

\* chrome.tabs.onUpdated's listener: whether it calls
\* chrome.tabs.sendMessage(tabId, {type: 'AUTO_ANALYZE'}); a tab whose url the
\* listener cannot see has url ""
onUpdated(changeInfo, tab, settings) ==
  /\ changeInfo.status = "complete" /\ tab.url # "" /\ ~StartsWith(tab.url, "chrome://")
  /\ ToBoolean(settings.autoScan)
  /\ LET domain == URLHostname(tab.url)
     IN /\ ~ListIncludes(settings.blocklist, domain)
        /\ ~(~Nullish(settings.allowlist) /\ Len(settings.allowlist.a) > 0
             /\ ~ListIncludes(settings.allowlist, domain))

\* the tabs: pages of two sites, a page of the browser, and a tab without url
TabUrls == {"https://example.com/", "https://shop.example/cart", "chrome://extensions/", ""}

\* allowlist and blocklist of the storage: missing, empty, or domains
DomainLists ==
  {Undef, Arr(<<>>), Arr(<<Str("example.com", 11)>>), Arr(<<Str("shop.example", 12)>>),
   Arr(<<Str("example.com", 11), Str("shop.example", 12)>>)}

\* what chrome.storage.local.get(['autoScan', 'allowlist', 'blocklist']) gives
StoredSettings ==
  [autoScan : {Undef, Bool(FALSE), Bool(TRUE)}, allowlist : DomainLists, blocklist : DomainLists]

TabUpdates ==
  [changeInfo : [status : {"loading", "complete"}], tab : [url : TabUrls], settings : StoredSettings]

\* the anchors of the pages: policy links of the page's own host under two
\* spellings of one URL, two anchors of the terms page, links that only the
\* cookie or legal patterns match, a link to another host, a link nothing
\* matches, and one whose href is not a URL
AnchorPool ==
  {Anchor("Privacy Policy", "/privacy-policy"),
   Anchor(" Privacy ", "https://Example.com/privacy-policy"),
   Anchor("Terms of Service", "/terms"),
   Anchor("Legal", "/terms"),
   Anchor("Cookie Policy", "/cookies"),
   Anchor("Our privacy policy", "https://partner.example.net/privacy"),
   Anchor("Contact", "/contact"),
   Anchor("Privacy", "https://")}

RECURSIVE ListsUpTo(_, _)
ListsUpTo(pool, len) ==
  IF len = 0 THEN {<<>>}
  ELSE LET shorter == ListsUpTo(pool, len - 1)
       IN shorter \cup {Append(x, c) : x \in {y \in shorter : Len(y) = len - 1}, c \in pool}

AnchorLists == ListsUpTo(AnchorPool, MaxAnchors)

\* the strings of a list as a JavaScript array
StringArray(strings) == Arr([i \in DOMAIN strings |-> Str(strings[i], Len(strings[i]))])

\* scrapePageData() (test-runner.js:1512-1543) on a page with the given
\* anchors: the text and the cookies of the page are fixed
scrapePageData(allLinks) ==
  Obj([domain |-> Str(currentDomain, Len(currentDomain)),
       url |-> Str(locationHref, Len(locationHref)),
       pageContent |-> Page(<<"Welcome to our shop", "We use cookies to improve your experience">>),
       privacyPolicyLinks |-> StringArray(contentFindPrivacyPolicyLinks(allLinks)),
       cookies |-> CookieData(2, 0),
       cookieBannerData |-> Undef])

\* a cookie as chrome.cookies.getAll gives it; the fields no function of the
\* model reads are left out
Cookie(name, domain) == [name |-> name, value |-> "v", domain |-> domain]

\* cookies of the page's host and of its parent domain, of other hosts, of a
\* host whose name is a part of the page's, names that match two categories
\* or none, and names in upper case
CookiePool ==
  {Cookie("AUTH_TOKEN", ".example.com"),
   Cookie("Theme", "www.example.com"),
   Cookie("_fbp", ".facebook.com"),
   Cookie("ad_session", "tracker.net"),
   Cookie("googleads_id", ".doubleclick.net"),
   Cookie("xyz", "ample.com")}

\* document.cookie of the pages
DocumentCookies == {"", "session_id=abc; _ga=GA1.2; flag", "googleads_id=7"}

CookieEnvs ==
  {CookieEnv(pageDomain, documentCookie, api, <<>>) :
     pageDomain \in {"example.com", "www.example.com"}, documentCookie \in DocumentCookies,
     api \in {"none", "throws"}}
  \cup {CookieEnv(pageDomain, documentCookie, "ok", cookies) :
          pageDomain \in {"example.com", "www.example.com"}, documentCookie \in DocumentCookies,
          cookies \in ListsUpTo(CookiePool, MaxCookies)}

\* the texts of the elements: none, white space only, a sentence with white
\* space around it and before its full stop, and texts just over the limits
\* of the page text and of the policy text
ElementTexts ==
  {<<>>,
   <<Run(" ", 2)>>,
   <<Run(" ", 1), Run("w", 100), Run(" ", 2), Run(".", 1), Run(" ", 1)>>,
   <<Run("w", 10000 + MaxExcess)>>,
   <<Run("w", 50000 + MaxExcess)>>}

ElementKinds == {"main", "article", ".policy-content", "p", "nav", "script"}

ElementPool == {Element(kind, text) : kind \in ElementKinds, text \in ElementTexts}

Documents ==
  {Document(elements, TRUE) : elements \in ListsUpTo(ElementPool, MaxElements)}
  \cup {Document(<<>>, FALSE)}

InitContent ==
  /\ PipeIdle
  /\ TplIdle
  /\ PromptIdle
  /\ SiteIdle
  /\ PopupIdle
  /\ \/ /\ csFn = "findPrivacyPolicyLinks"
        /\ csInput \in AnchorLists
     \/ /\ csFn = "extractCookieData"
        /\ csInput \in CookieEnvs
     \/ /\ csFn = "extractTextFromHTML"
        /\ csInput \in Documents
     \/ /\ csFn = "tabs.onUpdated"
        /\ csInput \in TabUpdates
  /\ csOut = <<>>
  /\ csPc = "apply"

\* findPrivacyPolicyLinks() of the content script and of the scraper, on a
\* page with the anchors csInput
ApplyFindPrivacyPolicyLinks ==
  /\ csPc = "apply"
  /\ csFn = "findPrivacyPolicyLinks"
  /\ csOut' = [uniqueLinks |-> contentUniqueLinks(csInput),
               urls |-> contentFindPrivacyPolicyLinks(csInput),
               scraper |-> findPrivacyPolicyLinks(csInput),
               fetchUrl |-> "",
               analysis |-> NotRun]
  /\ csPc' = "applied"
  /\ UNCHANGED <<pipeVars, tplVars, promptVars, siteVars, popupVars, csFn, csInput>>

\* analyzeSite(scrapePageData()) on a storage without entries
\* (test-runner.js:1018-1046): the rate limit and the cache let it pass, the
\* fetch of the first link resolves or rejects; fetchUrl is the URL handed to
\* fetch, "" when no fetch is made
ApplyAnalyzeSite ==
  /\ csPc = "applied"
  /\ csFn = "findPrivacyPolicyLinks"
  /\ LET siteData == scrapePageData(csInput)
         privacyPolicyLinks == Prop(siteData, "privacyPolicyLinks")
         fromPage == extractPrivacyTextFromPage(Prop(siteData, "pageContent"))
     IN \E privacyPolicyText \in
             IF ToBoolean(privacyPolicyLinks) /\ Gt(LengthOf(privacyPolicyLinks), 0)
             THEN {Ret(text) : text \in FetchedTexts} \cup {fromPage}
             ELSE {fromPage} :
          csOut' = [csOut EXCEPT
                      !.fetchUrl = IF ToBoolean(privacyPolicyLinks) /\ Gt(LengthOf(privacyPolicyLinks), 0)
                                   THEN privacyPolicyLinks.a[1].s ELSE "",
                      !.analysis = AnalysisOf(siteData, privacyPolicyText)]
  /\ csPc' = "analyzed"
  /\ UNCHANGED <<pipeVars, tplVars, promptVars, siteVars, popupVars, csFn, csInput>>

\* extractCookieData() of the content script and of cookie-extractor.js, in
\* the page and with the chrome.cookies API of csInput
ApplyExtractCookieData ==
  /\ csPc = "apply"
  /\ csFn = "extractCookieData"
  /\ csOut' = [content |-> contentExtractCookieData(csInput),
               extractor |-> extractCookieData(csInput)]
  /\ csPc' = "applied"
  /\ UNCHANGED <<pipeVars, tplVars, promptVars, siteVars, popupVars, csFn, csInput>>

\* the three text extractors on the document csInput
ApplyExtractText ==
  /\ csPc = "apply"
  /\ csFn = "extractTextFromHTML"
  /\ csOut' = [policyText |-> extractTextFromHTML(csInput),
               pageContent |-> getCleanPageText(csInput),
               fetched |-> fetchPrivacyPolicyContent(csInput)]
  /\ csPc' = "applied"
  /\ UNCHANGED <<pipeVars, tplVars, promptVars, siteVars, popupVars, csFn, csInput>>

\* a tab update reaches the listener, with the settings of csInput stored
ApplyOnUpdated ==
  /\ csPc = "apply"
  /\ csFn = "tabs.onUpdated"
  /\ csOut' = [sent |-> onUpdated(csInput.changeInfo, csInput.tab, csInput.settings)]
  /\ csPc' = "applied"
  /\ UNCHANGED <<pipeVars, tplVars, promptVars, siteVars, popupVars, csFn, csInput>>

NextContent ==
  \/ ApplyFindPrivacyPolicyLinks
  \/ ApplyAnalyzeSite
  \/ ApplyExtractCookieData
  \/ ApplyExtractText
  \/ ApplyOnUpdated

SpecContent == InitContent /\ [][NextContent]_vars

-----------------------------------------------------------------------------
(* The popup (test-runner.js:318-866) and the message listener of the        *)
(* service worker (test-runner.js:946-992)                                   *)

(* The listener runs its handler up to the first await when a message        *)
(* arrives; the rest of the handler is a later step.  analyzeCurrentSite is  *)
(* cut at its awaits in the same way.  What the content script, the          *)
(* injection and the handlers give is drawn from what they can give.         *)

MessageTypes ==
  {"ANALYZE_SITE", "GET_CACHED_RESULT", "CLEAR_CACHE", "UPDATE_SETTINGS", "PING", "OTHER"}

\* the types whose handler awaits chrome.storage or the analysis
AwaitingTypes == {"ANALYZE_SITE", "GET_CACHED_RESULT", "CLEAR_CACHE", "UPDATE_SETTINGS"}

\* the argument of a sendResponse call
Response(success, what) == [success |-> success, what |-> what]

\* a message of the listener: handler is how its handler ended, sent the
\* arguments of the sendResponse calls made for it
Message(type, st, handler, sent) == [type |-> type, st |-> st, handler |-> handler, sent |-> sent]

\* the listener without its catch clause
sendResponses_NoCatch(type, handler) ==
  IF type \notin MessageTypes \ {"OTHER"} THEN <<Response(FALSE, "Unknown message type")>>
  ELSE IF handler = "threw" THEN <<>>
  ELSE IF type = "PING" THEN <<Response(TRUE, "Service worker is awake")>>
  ELSE IF type \in {"ANALYZE_SITE", "GET_CACHED_RESULT"} THEN <<Response(TRUE, "data")>>
  ELSE <<Response(TRUE, "")>>

\* the sendResponse calls of the listener's switch and catch clause
\* (test-runner.js:951-988), for a message of the type whose handler ended so
sendResponses(type, handler) ==
  IF type \notin MessageTypes \ {"OTHER"} THEN <<Response(FALSE, "Unknown message type")>>
  ELSE IF handler = "threw" THEN <<Response(FALSE, "error.message")>>
  ELSE IF type = "PING" THEN <<Response(TRUE, "Service worker is awake")>>
  ELSE IF type \in {"ANALYZE_SITE", "GET_CACHED_RESULT"} THEN <<Response(TRUE, "data")>>
  ELSE <<Response(TRUE, "")>>

\* the listener is called with a message: the handler runs up to its first await
Arrived(type) ==
  IF type \in AwaitingTypes
  THEN Message(type, "awaiting", "none", <<>>)
  ELSE Message(type, "done", "returned", sendResponses(type, "returned"))

\* a message of another sender than the popup's analysis arrives
onMessage ==
  /\ Len(listener) < MaxSent
  /\ \E type \in MessageTypes : listener' = Append(listener, Arrived(type))
  /\ UNCHANGED popup

\* the handler of message i returns or throws
handlerSettles(i) ==
  /\ i \in DOMAIN listener
  /\ listener[i].st = "awaiting"
  /\ \E handler \in {"returned", "threw"} :
       listener' = [listener EXCEPT ![i] =
                      Message(listener[i].type, "done", handler,
                              listener[i].sent \o sendResponses(listener[i].type, handler))]
  /\ UNCHANGED popup

\* a run of analyzeCurrentSite: where it stands, whether it injected the
\* content script, the message it sent to the service worker, and how it ended
RunAt(at, injected, message, outcome) ==
  [pc |-> at, injected |-> injected, message |-> message, outcome |-> outcome]

\* analyzeCurrentSite with no test of isAnalyzing
Starts_NoGuard(p) == p.currentTab

\* test-runner.js:475: whether analyzeCurrentSite goes on past its first line
Starts(p) == p.currentTab /\ ~p.isAnalyzing

\* a click on Analyze or on Retry (test-runner.js:411-423, 473-479)
click ==
  /\ popup.pc = "open"
  /\ popup.clicks < MaxClicks
  /\ popup' = IF Starts(popup)
              THEN [popup EXCEPT !.clicks = @ + 1, !.isAnalyzing = TRUE, !.shown = "loading",
                                 !.runs = Append(@, RunAt("scrape", FALSE, 0, "none"))]
              ELSE [popup EXCEPT !.clicks = @ + 1]
  /\ UNCHANGED listener

\* the catch and finally clauses of analyzeCurrentSite (test-runner.js:544-549)
showError(r) ==
  [popup EXCEPT !.shown = "error", !.isAnalyzing = FALSE, !.runs[r] = RunAt("done", @.injected, @.message, "failure")]

\* the response to SCRAPE_PAGE_DATA is there (test-runner.js:487-525): with no
\* response or a failure the run fails, with the page data ANALYZE_SITE is sent
Scraped(r, response) ==
  IF response = "success"
  THEN /\ listener' = Append(listener, Arrived("ANALYZE_SITE"))
       /\ popup' = [popup EXCEPT !.runs[r] = RunAt("analyze", @.injected, Len(listener) + 1, "none")]
  ELSE /\ popup' = showError(r)
       /\ UNCHANGED listener

\* chrome.tabs.sendMessage settles for the first time
scrapeSettles(r) ==
  /\ r \in DOMAIN popup.runs
  /\ popup.runs[r].pc = "scrape"
  /\ \/ popup' = [popup EXCEPT !.runs[r].pc = "inject"] /\ UNCHANGED listener
     \/ \E response \in {"undefined", "failure", "success"} : Scraped(r, response)

\* chrome.scripting.executeScript settles (test-runner.js:497-511)
injectSettles(r) ==
  /\ r \in DOMAIN popup.runs
  /\ popup.runs[r].pc = "inject"
  /\ \/ popup' = [popup EXCEPT !.runs[r].pc = "timer"]
     \/ popup' = showError(r)
  /\ UNCHANGED listener

\* the second has passed, SCRAPE_PAGE_DATA is sent again
timer(r) ==
  /\ r \in DOMAIN popup.runs
  /\ popup.runs[r].pc = "timer"
  /\ popup' = [popup EXCEPT !.runs[r].pc = "scrapeAgain", !.runs[r].injected = TRUE]
  /\ UNCHANGED listener

\* chrome.tabs.sendMessage settles for the second time
scrapeAgainSettles(r) ==
  /\ r \in DOMAIN popup.runs
  /\ popup.runs[r].pc = "scrapeAgain"
  /\ \/ popup' = showError(r) /\ UNCHANGED listener
     \/ \E response \in {"undefined", "failure", "success"} : Scraped(r, response)

\* the response to ANALYZE_SITE is there (test-runner.js:528-542);
\* displayAnalysisResult shows the report or throws on it
analyzeSettles(r) ==
  /\ r \in DOMAIN popup.runs
  /\ popup.runs[r].pc = "analyze"
  /\ listener[popup.runs[r].message].st = "done"
  /\ LET sent == listener[popup.runs[r].message].sent
     IN IF sent # <<>> /\ sent[1].success
        THEN \/ popup' = [popup EXCEPT !.shown = "main", !.isAnalyzing = FALSE,
                                       !.runs[r] = RunAt("done", @.injected, @.message, "success")]
             \/ popup' = showError(r)
        ELSE popup' = showError(r)
  /\ UNCHANGED listener

\* the popup is open: on a tab it can analyze, on an unsupported page, or
\* with no tab (test-runner.js:355-390)
InitPopup ==
  /\ PipeIdle
  /\ TplIdle
  /\ PromptIdle
  /\ SiteIdle
  /\ ContentIdle
  /\ \E currentTab \in BOOLEAN, shown \in {"main", "error"} :
       /\ ~currentTab => shown = "error"
       /\ popup = [pc |-> "open", currentTab |-> currentTab, isAnalyzing |-> FALSE,
                   shown |-> shown, clicks |-> 0, runs |-> <<>>]
  /\ listener = <<>>

PopupStep ==
  \E r \in 1 .. MaxClicks :
    \/ scrapeSettles(r)
    \/ injectSettles(r)
    \/ timer(r)
    \/ scrapeAgainSettles(r)
    \/ analyzeSettles(r)

ListenerStep == \E i \in 1 .. (MaxSent + MaxClicks) : handlerSettles(i)

OnlyPopup == UNCHANGED <<pipeVars, tplVars, promptVars, siteVars, contentVars>>

NextPopup ==
  \/ click /\ OnlyPopup
  \/ \E i \in 1 .. MaxClicks : handlerSettles(i) /\ OnlyPopup
  \/ \E r \in 1 .. MaxClicks : scrapeSettles(r) /\ OnlyPopup
  \/ \E r \in 1 .. MaxClicks : injectSettles(r) /\ OnlyPopup
  \/ \E r \in 1 .. MaxClicks : timer(r) /\ OnlyPopup
  \/ \E r \in 1 .. MaxClicks : scrapeAgainSettles(r) /\ OnlyPopup
  \/ \E r \in 1 .. MaxClicks : analyzeSettles(r) /\ OnlyPopup

SpecPopup == InitPopup /\ [][NextPopup]_vars

\* Every promise of chrome.tabs.sendMessage, chrome.scripting.executeScript
\* and chrome.runtime.sendMessage settles, the timer fires, and the handlers
\* of the listener return or throw; nobody has to click.
FairPopup ==
  /\ SpecPopup
  /\ WF_vars(PopupStep /\ OnlyPopup)
  /\ WF_vars(ListenerStep /\ OnlyPopup)

\* the service worker alone, with messages of any sender
InitListener ==
  /\ PipeIdle
  /\ TplIdle
  /\ RestIdle

NextListener ==
  \/ onMessage /\ OnlyPopup
  \/ \E i \in 1 .. MaxSent : handlerSettles(i) /\ OnlyPopup

SpecListener == InitListener /\ [][NextListener]_vars

\* the handlers of the listener return or throw
FairListener == SpecListener /\ WF_vars(ListenerStep /\ OnlyPopup)

(* Properties of the pipeline *)

\* the result a step has produced
ResultOf(t) ==
  CASE t = "SUMMARIZER" -> summarizerResult
    [] t = "COOKIE_ANALYZER" -> cookieResult
    [] t = "DELETION_ANALYZER" -> deletionResult
    [] OTHER -> riskResult

\* the data a step hands to its fallback
FallbackInputOf(t) ==
  CASE t = "SUMMARIZER" -> Obj([policyText |-> policyTextOf(analysisData)])
    [] t = "COOKIE_ANALYZER" -> Obj([cookieData |-> Prop(analysisData, "cookies")])
    [] t = "DELETION_ANALYZER" -> Obj([policyText |-> policyTextOf(analysisData)])
    [] OTHER -> combinedData

\* the step whose AI call the pipeline awaits
Awaited ==
  CASE pc = "awaitSummarizer" -> "SUMMARIZER"
    [] pc = "awaitCookieAnalysis" -> "COOKIE_ANALYZER"
    [] pc = "awaitDeletionAnalysis" -> "DELETION_ANALYZER"
    [] pc = "awaitRiskAssessment" -> "RISK_SCORER"
    [] OTHER -> "none"

Failed(t) == history[t] \in {"rejected", "invalid"}

C1_State ==
  /\ \A t \in TemplateNames :
       Failed(t) => ResultOf(t) = generateFallbackResponse(t, FallbackInputOf(t)).v
  /\ pc \in {"combine", "catch", "done"} => \A t \in TemplateNames : history[t] /= "none"

C1_Step ==
  /\ \A t \in TemplateNames :
       history[t] /= "none" => ResultOf(t)' = ResultOf(t) /\ history'[t] = history[t]
  /\ \A t \in TemplateNames :
       (Awaited = t /\ pc' /= pc /\ Accepted(t, call))
         => ResultOf(t)' = JSON_parse(call.response).v /\ history'[t] = "ai"
  /\ \A t \in TemplateNames :
       (Awaited = t /\ pc' /= pc /\ ~Accepted(t, call)) => Failed(t)'

ReportFields ==
  {"domain", "url", "summary", "data_use", "deletion", "cookies",
   "risk_score", "verdict", "reasons", "actions", "confidence"}

\* C2: whatever the four AI calls do, analyzePrivacyPolicy never lets an error
\* reach its caller, and what it returns is a report object that has every
\* field of the output schema (domain and url as the caller supplied them).
C2_AlwaysReport ==
  /\ returned /= "error"
  /\ pc = "done" =>
       /\ returned = "report"
       /\ finalResult.t = "object"
       /\ \A k \in ReportFields \ {"domain", "url"} : Prop(finalResult, k).t /= "undefined"
       /\ Prop(finalResult, "domain") = Prop(analysisData, "domain")
       /\ Prop(finalResult, "url") = Prop(analysisData, "url")

\* a report was returned although every step that called the AI failed
C2_Witness ==
  /\ pc = "done" /\ returned = "report"
  /\ history["COOKIE_ANALYZER"] = "invalid"
  /\ history["DELETION_ANALYZER"] = "rejected"
  /\ history["RISK_SCORER"] = "invalid"
  /\ Prop(finalResult, "domain") = Str("example.com", 11)

\* C3: the risk step is a barrier.  While runRiskAssessment is in progress the
\* summarizer, cookie and deletion steps have each produced their result, and
\* its argument is made of exactly those three results, the domain and the url.
C3_RiskBarrier ==
  (pc = "awaitRiskAssessment" \/ call.template = "RISK_SCORER") =>
    /\ \A t \in {"SUMMARIZER", "COOKIE_ANALYZER", "DELETION_ANALYZER"} :
         history[t] /= "none" /\ ResultOf(t).t = "object"
    /\ DOMAIN combinedData.f = {"summarizer", "cookies", "deletion", "domain", "url"}
    /\ Prop(combinedData, "summarizer") = summarizerResult
    /\ Prop(combinedData, "cookies") = cookieResult
    /\ Prop(combinedData, "deletion") = deletionResult
    /\ Prop(combinedData, "domain") = Prop(analysisData, "domain")
    /\ Prop(combinedData, "url") = Prop(analysisData, "url")

\* the risk call is in flight after an AI-derived and two fallback results
C3_Witness ==
  /\ pc = "awaitRiskAssessment" /\ call.st = "pending"
  /\ history["SUMMARIZER"] = "short"
  /\ history["COOKIE_ANALYZER"] = "ai"
  /\ history["DELETION_ANALYZER"] = "rejected"

\* C4: an AI call that never settles is abandoned after AI_CONFIG.timeoutMs
\* and replaced by the fallback, so every analysis ends with a report.
C4_EveryAnalysisCompletes == <>(pc = "done" /\ returned = "report")

IsInt0to100(v) == v.t = "number" /\ v.s = "" /\ v.n >= 0 /\ v.n <= 100

\* C5: the risk_score of every risk-step result and of every report is an
\* integer in [0,100].
C5_RiskScoreInRange ==
  /\ riskResult.t = "object" => IsInt0to100(Prop(riskResult, "risk_score"))
  /\ returned = "report" => IsInt0to100(Prop(finalResult, "risk_score"))
  /\ (tplName = "RISK_SCORER" /\ tplPc \in {"fellBack", "roundTripped"})
       => IsInt0to100(Prop(tplOut.fallback.v, "risk_score"))

\* the verdict VERDICT_THRESHOLDS gives a score
VerdictFor(score) ==
  CASE score >= VERDICT_THRESHOLDS.SAFE.min /\ score <= VERDICT_THRESHOLDS.SAFE.max -> "SAFE"
    [] score >= VERDICT_THRESHOLDS.CAUTION.min /\ score <= VERDICT_THRESHOLDS.CAUTION.max -> "CAUTION"
    [] score >= VERDICT_THRESHOLDS.UNSAFE.min /\ score <= VERDICT_THRESHOLDS.UNSAFE.max -> "UNSAFE"
    [] OTHER -> "none"

Consistent(obj) ==
  Prop(obj, "verdict") = VerdictStr(VerdictFor(Prop(obj, "risk_score").n))

\* C6: in every risk result and every report the verdict is the one the
\* thresholds give the risk_score: SAFE up to 30, CAUTION 31..70, UNSAFE from 71.
C6_VerdictConsistent ==
  /\ riskResult.t = "object" => Consistent(riskResult)
  /\ returned = "report" => Consistent(finalResult)
  /\ (tplName = "RISK_SCORER" /\ tplPc \in {"fellBack", "roundTripped"})
       => Consistent(tplOut.fallback.v) /\ Consistent(tplOut.fallback2.v)

-----------------------------------------------------------------------------
(* Properties of the functions of prompt-templates.js *)

ManyThirdParty(input) ==
  LET c == Prop(input, "cookies")
  IN c.t = "object" /\ Prop(c, "third_party").t = "number" /\ Prop(c, "third_party").n > 5
DeletionUnavailable(input) ==
  LET d == Prop(input, "deletion")
  IN d.t = "object" /\ Prop(d, "can_delete") = Str("no", 2)
RiskFactors(input) ==
  (IF ManyThirdParty(input) THEN 1 ELSE 0) + (IF DeletionUnavailable(input) THEN 1 ELSE 0)

\* C8: the risk fallback's score is 50, plus 20 for more than 5 third-party
\* cookies, plus 15 for deletion 'no', within [0,100]; of two inputs the one
\* with more risk factors present has the strictly greater score.
C8_FallbackRiskScore ==
  (tplName = "RISK_SCORER" /\ tplPc \in {"fellBack", "roundTripped"}) =>
    LET score == Prop(tplOut.fallback.v, "risk_score")
        score2 == Prop(tplOut.fallback2.v, "risk_score")
    IN /\ score = Num(50 + (IF ManyThirdParty(tplInput) THEN 20 ELSE 0)
                         + (IF DeletionUnavailable(tplInput) THEN 15 ELSE 0))
       /\ score.n >= 0 /\ score.n <= 100
       /\ RiskFactors(tplInput) > RiskFactors(tplInput2) => score.n > score2.n

\* two inputs were scored, one with both risk factors, one with a single one
C8_Witness ==
  /\ tplName = "RISK_SCORER" /\ tplPc = "fellBack"
  /\ RiskFactors(tplInput) = 2 /\ RiskFactors(tplInput2) = 1
  /\ Prop(tplOut.fallback.v, "risk_score") = Num(85)

\* the response cannot be parsed, or parses to something without the fields
\* the step requires
Defective(templateName, response) ==
  \/ ~response.json
  \/ (templateName \in TemplateNames /\ response.v.t /= "object")
  \/ \E k \in RequiredFields(templateName) : Prop(response.v, k).t = "undefined"

\* C9: validateResponse never throws, whatever the step identifier and the
\* response; a response that is no JSON, or whose value lacks a required field
\* or is no object at all, is reported invalid.
C9_ValidateNeverThrows ==
  tplPc = "validated" =>
    /\ ~tplOut.valid.threw
    /\ Defective(tplName, tplResponse) => ~ToBoolean(tplOut.valid.v)

\* the JSON text null was validated for the risk step
C9_Witness ==
  /\ tplPc = "validated"
  /\ tplName = "RISK_SCORER"
  /\ tplResponse = Text(Null)
  /\ tplOut.valid = Ret(Bool(FALSE))

\* C10: for each step validateResponse returns the boolean true for a response
\* in the step's OUTPUT FORMAT and the boolean false for that response less
\* any one required field.
C10_RoundTripBooleans ==
  (tplPc = "validated" /\ tplName \in TemplateNames) =>
    /\ tplResponse = Text(WellFormed(tplName)) => tplOut.valid = Ret(Bool(TRUE))
    /\ \A k \in RequiredFields(tplName) :
         tplResponse = Text(Omit(WellFormed(tplName), k)) => tplOut.valid = Ret(Bool(FALSE))

\* every element of the array v is a string
AllStrings(v) == \A i \in 1..Len(v.a) : v.a[i].t = "string"

\* C11: validateResponse accepts a summarizer response only if its summary is
\* a non-empty string and its categories are an array of strings.
C11_SummarizerAcceptedOnlyIfTyped ==
  (tplPc = "validated" /\ tplName = "SUMMARIZER" /\ ToBoolean(tplOut.valid.v)) =>
    LET parsed == JSON_parse(tplResponse).v
    IN /\ Prop(parsed, "summary").t = "string" /\ Prop(parsed, "summary").n > 0
       /\ Prop(parsed, "categories").t = "array"
       /\ AllStrings(Prop(parsed, "categories"))

\* C12: validateResponse accepts a risk-scorer response only if its risk_score
\* is a number, its verdict is SAFE, CAUTION or UNSAFE, and its reasons are a
\* non-empty list.
C12_RiskAcceptedOnlyIfComplete ==
  (tplPc = "validated" /\ tplName = "RISK_SCORER" /\ ToBoolean(tplOut.valid.v)) =>
    LET parsed == JSON_parse(tplResponse).v
    IN /\ Prop(parsed, "risk_score").t = "number"
       /\ Prop(parsed, "verdict") \in {VerdictStr("SAFE"), VerdictStr("CAUTION"), VerdictStr("UNSAFE")}
       /\ Prop(parsed, "reasons").t = "array"
       /\ Prop(parsed, "reasons").n > 0

\* the sequence sub occurs in the sequence text
Contains(text, sub) ==
  \E i \in 0..(Len(text) - Len(sub)) : \A j \in 1..Len(sub) : text[i + j] = sub[j]

\* C13: for every step identifier other than the four template names,
\* formatPrompt fails with the unknown-template error and returns no prompt.
C13_UnknownTemplateFails ==
  (fmtPc = "formatted" /\ fmtName \notin TemplateNames) =>
    fmtOut = ThrewError("Unknown prompt template")

\* C14: for a template name and any variable map, formatPrompt returns a prompt
\* in which no placeholder of a supplied variable is left and which holds, for
\* every supplied variable the template has a placeholder for, the variable's
\* value as it was given (an object's value as its JSON text); maxTokens is
\* greater than 0.
C14_PromptHoldsValues ==
  (fmtPc = "formatted" /\ fmtName \in TemplateNames) =>
    /\ ~fmtOut.threw
    /\ Prop(fmtOut.v, "maxTokens").t = "number" /\ Prop(fmtOut.v, "maxTokens").n > 0
    /\ Prop(fmtOut.v, "prompt").t = "string"
    /\ \A i \in 1..Len(fmtVariables) :
         LET placeholder == PlaceholderOf(fmtVariables[i].key)
             value == fmtVariables[i].value
             text == IF TypeOf(value) = "object" THEN JSON_text(value) ELSE StringOf(value)
         IN Contains(PROMPT_TEMPLATES(fmtName).template.a, <<placeholder>>) =>
              /\ ~Contains(Prop(fmtOut.v, "prompt").a, <<placeholder>>)
              /\ Contains(Prop(fmtOut.v, "prompt").a, text)

\* the confidence the merge rule gives a report: 0.5, and 0.2 more for a
\* summary of more than 50 characters, 0.1 for any cookie, 0.1 for a deletion
\* status other than 'unknown', 0.1 for more than one reason, at most 1.0
ConfidenceRule(report) ==
  LET summary == Prop(report, "summary")
      count == Prop(Prop(report, "cookies"), "cookie_count")
      reasons == Prop(report, "reasons")
      c0 == Tenths(5)
      c1 == IF summary.t = "string" /\ summary.n > 50 THEN DblAdd(c0, Tenths(2)) ELSE c0
      c2 == IF count.t = "number" /\ count.s = "" /\ count.n > 0 THEN DblAdd(c1, Tenths(1)) ELSE c1
      c3 == IF Prop(Prop(report, "deletion"), "can_user_delete") /= Str("unknown", 7)
            THEN DblAdd(c2, Tenths(1)) ELSE c2
      c4 == IF reasons.t = "array" /\ reasons.n > 1 THEN DblAdd(c3, Tenths(1)) ELSE c3
  IN DblMin(c4, Tenths(10))

\* v is a double within [0, 1]
InUnitInterval(v) ==
  /\ v.t = "number" /\ v.s = "/10"
  /\ v.n > 0 \/ (v.n = 0 /\ v.a[1] >= 0)
  /\ v.n < 10 \/ (v.n = 10 /\ v.a[1] <= 0)

C15_State == returned = "report" => InUnitInterval(Prop(finalResult, "confidence"))

C15_Step ==
  (pc = "combine" /\ pc' = "done") =>
    LET confidence == Prop(finalResult', "confidence")
    IN /\ confidence = ConfidenceRule(finalResult')
       /\ confidence.a[1] <= 0 /\ confidence.a[1] > 0 - 160

\* C15: the confidence of a merged report is the sum, as JavaScript adds
\* numbers, of 0.5 and the bonuses that apply (0.2 non-trivial summary, 0.1 any
\* cookies, 0.1 deletion status not 'unknown', 0.1 more than one reason), capped
\* at 1.0; it is within one rounding step below the decimal sum, and the
\* confidence of every report, merged or whole-pipeline fallback, is in [0,1].
C15_ConfidenceRule == [](C15_State) /\ [][C15_Step]_vars

\* a report merged with all four bonuses: 0.9999999999999999
C15_Witness ==
  /\ pc = "done" /\ returned = "report"
  /\ \A t \in TemplateNames : history[t] = "ai"
  /\ Prop(finalResult, "confidence") = Dbl(10, 0 - 80)
  /\ Prop(Prop(finalResult, "deletion"), "can_user_delete") = Str("yes", 3)

\* C16: an analysis whose page signal has no domain ends with an error for the
\* caller, and no report, partial or whole, is produced for it.
C16_MissingDomainFails ==
  (pc \notin {"off", "idle"} /\ Prop(analysisData, "domain").t = "undefined") =>
    /\ returned /= "report"
    /\ finalResult = Undef
    /\ pc = "done" => returned = "error"

\* the cookie result lists, per category, the cookies that belong to it (or
\* names no categories)
ListsCookies(cookies) ==
  LET categories == Prop(cookies, "categories")
  IN \/ categories.t = "undefined"
     \/ /\ categories.t = "object"
        /\ \A k \in DOMAIN categories.f :
             /\ categories.f[k].t = "array"
             /\ \A i \in 1..Len(categories.f[k].a) : categories.f[k].a[i].t = "object"

\* only the deletion step's response was malformed; the other three steps took
\* their AI responses
Scenario3 ==
  /\ pc = "done"
  /\ history["SUMMARIZER"] = "ai"
  /\ history["COOKIE_ANALYZER"] = "ai"
  /\ history["DELETION_ANALYZER"] = "invalid"
  /\ history["RISK_SCORER"] = "ai"
  /\ ListsCookies(cookieResult)

\* the report of the run that differs only in a well-formed deletion response d
ReportWithDeletion(d) ==
  combineAnalysisResults(With(CombineInput, "deletion", JSON_parse(d).v))

Scenario1 ==
  /\ pc = "done"
  /\ policyTextOf(analysisData) = PolicyText(0)
  /\ Prop(analysisData, "cookies") = CookieData(0, 0)

\* a <= b on doubles
DblLeq(a, b) == a.n < b.n \/ (a.n = b.n /\ a.a[1] <= b.a[1])

\* C18 (scenario 1): for a page with no policy links, no cookies and an empty
\* policy text the report is made of fallbacks only, its verdict is not SAFE,
\* and its confidence is at most 0.5.
C18_EmptyPageReport ==
  Scenario1 =>
    /\ returned = "report"
    /\ \A t \in TemplateNames : history[t] /= "ai"
    /\ Prop(finalResult, "verdict") /= VerdictStr("SAFE")
    /\ DblLeq(Prop(finalResult, "confidence"), Tenths(5))

\* the third-party cookie count the risk fallback or the heuristic reads from
\* its input
ThirdPartyIn(input) ==
  LET c == Prop(input, "cookies")
      n == IF Nullish(c) THEN Undef
           ELSE IF "third_party" \in DOMAIN c.f THEN c.f.third_party
           ELSE Prop(c, "thirdPartyCookies")
  IN IF n.t = "number" THEN n.n ELSE 0

\* scenario 2 as the risk fallback sees it, and as the heuristic sees it
Scenario2Risk ==
  /\ tplName = "RISK_SCORER" /\ tplPc \in {"fellBack", "roundTripped"}
  /\ tplInput = Obj([cookies |-> Obj([first_party |-> Num(2), third_party |-> Num(8)]),
                     deletion |-> Obj([can_delete |-> Str("yes", 3)])])
Scenario2Heuristic ==
  /\ tplPc = "analyzed"
  /\ Prop(tplInput, "cookies") = CookieData(10, 8)
  /\ Prop(tplInput, "privacyPolicyText") = PolicyText(100)

\* C19 (scenario 2): for a page with 10 cookies, 8 of them third-party, a valid
\* policy text and deletion status 'yes', the risk score of the risk fallback
\* and of the heuristic analysis is higher than for the same input with at most
\* 5 third-party cookies, and the verdict is CAUTION or UNSAFE.
C19_ThirdPartyBonus ==
  (Scenario2Risk \/ Scenario2Heuristic) =>
    /\ Prop(tplOut.fallback.v, "verdict") \in {VerdictStr("CAUTION"), VerdictStr("UNSAFE")}
    /\ (/\ ThirdPartyIn(tplInput2) <= 5
        /\ Prop(tplInput2, "deletion") = Prop(tplInput, "deletion"))
         => Prop(tplOut.fallback.v, "risk_score").n > Prop(tplOut.fallback2.v, "risk_score").n

\* the heuristic scored the scenario's page and the same page with 5
\* third-party cookies
C19_Witness ==
  /\ Scenario2Heuristic
  /\ Prop(tplInput2, "cookies") = CookieData(7, 5)
  /\ Prop(tplInput, "privacyPolicyLinks").n = 1
  /\ Prop(tplOut.fallback.v, "risk_score") = Num(60)
  /\ Prop(tplOut.fallback2.v, "risk_score") = Num(30)

-----------------------------------------------------------------------------
(* Properties of the service worker *)

\* C20: an analyzeSite called while storage holds an entry for its domain that
\* is no older than CACHE_TTL returns the report of that entry, and no analysis
\* is run for it; an analysis has not started before its call has read the
\* cache, and every entry of the cache holds the report of a finished analysis.
C20_FreshCacheIsReturned ==
  /\ \A p \in Slots :
       request[p].pc = "done" /\ request[p].atCall # NoEntry
         => /\ request[p].outcome = "cached"
            /\ request[p].response = Ret(request[p].atCall.result)
  /\ \A p \in Slots :
       request[p].pc \in {"getLastAnalysisTime", "getCachedResult", "fetch"}
         => request[p].analysisResult = Undef
  /\ \A k \in StorageKeys :
       storageCache[k] # NoEntry => Prop(storageCache[k].result, "verdict") \in
                                     {VerdictStr("SAFE"), VerdictStr("CAUTION"), VerdictStr("UNSAFE")}

\* the steps of analyzeSite after it has run its analysis
AfterAnalysis == {"cacheResult", "updateLastAnalysisTime_get", "updateLastAnalysisTime_set"}

\* C21: two analyses that analyzeSite has run for the same domain, and that
\* are both still in flight, were started at least RATE_LIMIT_DELAY
\* milliseconds apart.
C21_RunsTenSecondsApart ==
  \A p, q \in Slots :
    /\ p # q
    /\ request[p].pc \in AfterAnalysis
    /\ request[q].pc \in AfterAnalysis
    /\ DomainKey(p) = DomainKey(q)
    /\ request[p].cacheTime >= request[q].cacheTime
    => request[p].cacheTime - request[q].cacheTime >= RATE_LIMIT_DELAY

-----------------------------------------------------------------------------
(* Properties of the content script and of the utilities *)

\* no two entries of the list have the same url
DistinctUrls(links) == \A i, j \in DOMAIN links : links[i].url = links[j].url => i = j

\* every entry of out is the first entry of sorted that has its url, and
\* every url of sorted is in out
FirstOccurrences(out, sorted) ==
  /\ \A i \in DOMAIN out :
       \E j \in DOMAIN sorted :
         /\ sorted[j] = out[i]
         /\ \A k \in 1 .. (j - 1) : sorted[k].url # out[i].url
  /\ \A j \in DOMAIN sorted : \E i \in DOMAIN out : out[i].url = sorted[j].url

\* C22: for every list of anchors, the list of either link ranker holds each
\* resolved URL at most once, the entry kept for a URL is the first one with
\* that URL in the sorted list, and in the content script it has the highest
\* priority of the anchors with that URL.
C22_NoDuplicateUrls ==
  csPc = "applied" /\ csFn = "findPrivacyPolicyLinks" =>
    LET links == CollectLinks(csInput)
        sorted == SortByPriority(links)
        scraperSorted == SortByRelevance(ScraperCollectLinks(csInput))
        uniqueLinks == csOut.uniqueLinks
        urls == csOut.urls
        scraper == csOut.scraper
    IN /\ DistinctUrls(uniqueLinks)
       /\ \A i, j \in DOMAIN urls : urls[i] = urls[j] => i = j
       /\ DistinctUrls(scraper)
       /\ FirstOccurrences(uniqueLinks, sorted)
       /\ FirstOccurrences(scraper, scraperSorted)
       /\ \A i \in DOMAIN uniqueLinks :
            \A j \in DOMAIN links :
              links[j].url = uniqueLinks[i].url => links[j].priority <= uniqueLinks[i].priority

\* a page that links its terms twice, the lower-priority anchor first: the
\* URL is returned once, with the entry of the higher-priority anchor
C22_Witness ==
  /\ csPc = "applied"
  /\ csFn = "findPrivacyPolicyLinks"
  /\ csInput = <<Anchor("Terms of Service", "/terms"), Anchor("Legal", "/terms")>>
  /\ csOut.urls = <<"https://example.com/terms">>
  /\ csOut.uniqueLinks[1].text = "legal"
  /\ csOut.uniqueLinks[1].priority = 4

\* the sum of the four bonuses: 10 for the phrase 'privacy policy' in the
\* text or 'privacy-policy' in the URL, 5 for 'privacy', 1 for 'legal' or
\* 'terms', 3 for a link to the page's own host
BonusSum(link) ==
  (IF Includes(link.text, "privacy policy") \/ Includes(link.url, "privacy-policy") THEN 10 ELSE 0)
  + (IF Includes(link.text, "privacy") \/ Includes(link.url, "privacy") THEN 5 ELSE 0)
  + (IF \E term \in {"legal", "terms"} : Includes(link.text, term) \/ Includes(link.url, term)
     THEN 1 ELSE 0)
  + (IF link.isSameDomain THEN 3 ELSE 0)

\* C23: the priority of every link candidate the content script returns is
\* the sum of the four bonuses (10 exact phrase, 5 'privacy', 1 'legal' or
\* 'terms', 3 same host), and it is not negative.
C23_PriorityIsBonusSum ==
  csPc = "applied" /\ csFn = "findPrivacyPolicyLinks" =>
    \A i \in DOMAIN csOut.uniqueLinks :
      /\ csOut.uniqueLinks[i].priority = BonusSum(csOut.uniqueLinks[i])
      /\ csOut.uniqueLinks[i].priority >= 0

\* the place of the first entry of the list that equals x
FirstPlace(links, x) ==
  CHOOSE i \in DOMAIN links : links[i] = x /\ \A k \in 1 .. (i - 1) : links[k] # x

\* the content script's list is in descending order of priority, and links
\* of equal priority are in the order of their anchors
ContentOrdered ==
  LET out == csOut.uniqueLinks
      links == CollectLinks(csInput)
  IN \A i, j \in DOMAIN out :
       i < j => /\ out[i].priority >= out[j].priority
                /\ out[i].priority = out[j].priority
                     => FirstPlace(links, out[i]) < FirstPlace(links, out[j])

\* the scraper's list is in descending order of its relevance score
ScraperOrdered ==
  LET out == csOut.scraper
  IN \A i, j \in DOMAIN out :
       i < j => getPrivacyRelevanceScore(out[i].text, out[i].url)
                  >= getPrivacyRelevanceScore(out[j].text, out[j].url)

\* C24: for every list of anchors the links a ranker returns are in
\* descending order of their score, and links of equal score keep the order
\* of the page; this is stated for the content script's ranker and for the
\* scraper's.
C24_HighestFirst ==
  csPc = "applied" /\ csFn = "findPrivacyPolicyLinks" => ContentOrdered /\ ScraperOrdered

\* the report says that no privacy policy was found
NoPolicyReport(report) ==
  /\ Prop(report, "summary").s = "This site has n cookies (m third-party). No privacy policy detected."
  /\ \E i \in DOMAIN Prop(report, "reasons").a :
       Prop(report, "reasons").a[i] = Str("No privacy policy found", 23)
  /\ Prop(Prop(report, "deletion"), "how") = Str("No privacy policy available", 27)
  /\ Prop(report, "verdict") \in {VerdictStr("CAUTION"), VerdictStr("UNSAFE")}

\* C25: on a page none of whose anchors qualifies, both link rankers return
\* the empty list, and analyzeSite, run on what the content script scraped,
\* returns a report that says that no privacy policy was found; it does not
\* throw.
C25_NoLinksIsNoPolicy ==
  /\ csFn = "findPrivacyPolicyLinks" /\ csPc \in {"applied", "analyzed"}
       /\ (\A i \in DOMAIN csInput : ~Pushed(csInput[i]))
       => csOut.urls = <<>> /\ csOut.uniqueLinks = <<>>
  /\ csFn = "findPrivacyPolicyLinks" /\ csPc \in {"applied", "analyzed"}
       /\ (\A i \in DOMAIN csInput : ~ScraperPushed(csInput[i]))
       => csOut.scraper = <<>>
  /\ csFn = "findPrivacyPolicyLinks" /\ csPc = "analyzed" /\ csOut.urls = <<>>
       => ~csOut.analysis.threw /\ NoPolicyReport(csOut.analysis.v)

\* a page whose anchors are a contact link and a link with a broken href:
\* no link is returned, and the report says that no policy was found
C25_Witness ==
  /\ csFn = "findPrivacyPolicyLinks"
  /\ csPc = "analyzed"
  /\ csInput = <<Anchor("Contact", "/contact"), Anchor("Privacy", "https://")>>
  /\ csOut.urls = <<>>
  /\ Prop(csOut.analysis.v, "risk_score") = Num(65)

\* the cookies categorizeCookies was given: those of document.cookie and
\* those of the chrome.cookies API
CategorizedCookies == csOut.extractor.documentCookies \o csOut.extractor.chromeCookies

\* the categories that hold an entry of the cookie
BucketsOf(cookie) ==
  {category \in Categories :
     \E k \in DOMAIN csOut.extractor.summary[category] :
       /\ csOut.extractor.summary[category][k].name = cookie.name
       /\ csOut.extractor.summary[category][k].domain = cookie.domain}

\* C26: for every list of cookies categorizeCookies returns the six
\* categories, every cookie has its entries in exactly one of them, and the
\* sizes of the six categories sum to the number of cookies.
C26_ExactlyOneCategory ==
  csPc = "applied" /\ csFn = "extractCookieData" =>
    LET summary == csOut.extractor.summary
    IN /\ DOMAIN summary = {"essential", "analytics", "advertising", "preferences", "social", "unknown"}
       /\ Len(summary["essential"]) + Len(summary["analytics"]) + Len(summary["advertising"])
            + Len(summary["preferences"]) + Len(summary["social"]) + Len(summary["unknown"])
          = Len(CategorizedCookies)
       /\ csOut.extractor.cookieCount = Len(CategorizedCookies)
       /\ \A i \in DOMAIN CategorizedCookies : Cardinality(BucketsOf(CategorizedCookies[i])) = 1

\* four cookies, one of them with a name that an analytics and an advertising
\* pattern match: four entries in all, that cookie in one category only
C26_Witness ==
  /\ csPc = "applied"
  /\ csFn = "extractCookieData"
  /\ csInput.documentCookie = "session_id=abc; _ga=GA1.2; flag"
  /\ csInput.cookies = <<Cookie("googleads_id", ".doubleclick.net"), Cookie("xyz", "ample.com")>>
  /\ csOut.extractor.cookieCount = 4
  /\ Len(csOut.extractor.summary["essential"]) = 1
  /\ Len(csOut.extractor.summary["analytics"]) = 2
  /\ Len(csOut.extractor.summary["unknown"]) = 1
  /\ MatchesCategory("advertising", "googleads_id")

\* the first of essential, analytics, advertising, preferences, social with
\* a pattern that matches the name, and unknown if there is none
FirstMatch(name) ==
  IF MatchesCategory("essential", name) THEN "essential"
  ELSE IF MatchesCategory("analytics", name) THEN "analytics"
  ELSE IF MatchesCategory("advertising", name) THEN "advertising"
  ELSE IF MatchesCategory("preferences", name) THEN "preferences"
  ELSE IF MatchesCategory("social", name) THEN "social"
  ELSE "unknown"

\* C27: every cookie is in the first of the categories essential, analytics,
\* advertising, preferences, social that has a pattern matching its name, and
\* in unknown if none has; a name that an essential and an advertising
\* pattern match is in essential.
C27_FirstMatchWins ==
  csPc = "applied" /\ csFn = "extractCookieData" =>
    \A i \in DOMAIN CategorizedCookies :
      /\ FirstMatch(CategorizedCookies[i].name) \in BucketsOf(CategorizedCookies[i])
      /\ \A category \in BucketsOf(CategorizedCookies[i]) :
           \A k \in DOMAIN csOut.extractor.summary[category] :
             csOut.extractor.summary[category][k].type = category
      /\ MatchesCategory("essential", CategorizedCookies[i].name)
           /\ MatchesCategory("advertising", CategorizedCookies[i].name)
           => "essential" \in BucketsOf(CategorizedCookies[i])

\* a cookie named googleads_id, which the analytics pattern ^google and the
\* advertising pattern ^googleads match, is in analytics; AUTH_TOKEN is in
\* essential and ad_session in advertising
C27_Witness ==
  /\ csPc = "applied"
  /\ csFn = "extractCookieData"
  /\ csInput.documentCookie = "googleads_id=7"
  /\ csInput.cookies = <<Cookie("AUTH_TOKEN", ".example.com"), Cookie("ad_session", "tracker.net")>>
  /\ MatchesCategory("analytics", "googleads_id") /\ MatchesCategory("advertising", "googleads_id")
  /\ csOut.extractor.summary["analytics"][1].name = "googleads_id"
  /\ csOut.extractor.summary["essential"][1].name = "AUTH_TOKEN"
  /\ csOut.extractor.summary["advertising"][1].name = "ad_session"

\* the domain of the cookie, without its leading dot, is not contained in the
\* page's domain, and the page's domain is not contained in it
ForeignDomain(cookie, pageDomain) ==
  LET domain == IF StartsWith(cookie.domain, ".") THEN SubSeq(cookie.domain, 2, Len(cookie.domain))
                ELSE cookie.domain
  IN ~Includes(pageDomain, domain) /\ ~Includes(domain, pageDomain)

\* how many cookies of the list have a foreign domain
ForeignCount(cookies, pageDomain) ==
  Cardinality({i \in DOMAIN cookies : ForeignDomain(cookies[i], pageDomain)})

\* C28: the third-party count of extractCookieData, in the content script
\* and in cookie-extractor.js, is the number of the cookies it found whose
\* domain (leading dot removed) neither is contained in the page's domain nor
\* contains it, and it is at most the cookie count.
C28_ThirdPartyByDomain ==
  csPc = "applied" /\ csFn = "extractCookieData" =>
    /\ csOut.content.thirdPartyCookies
         = ForeignCount(IF csInput.api = "ok" THEN csOut.content.allCookies
                        ELSE csOut.content.documentCookies, csInput.pageDomain)
    /\ csOut.content.thirdPartyCookies <= csOut.content.cookieCount
    /\ csOut.extractor.thirdPartyCookies = ForeignCount(CategorizedCookies, csInput.pageDomain)
    /\ csOut.extractor.thirdPartyCookies <= csOut.extractor.cookieCount

ExtractedText == csFn = "extractTextFromHTML" /\ csPc = "applied"

\* the policy text and the page text alone
ExtractorsBounded ==
  ExtractedText =>
    /\ TextLength(csOut.policyText) <= 50000
    /\ TextLength(csOut.pageContent) <= 10000

\* C29: the text handed to the analysis is bounded on every path: the policy
\* text of extractTextFromHTML and of the service worker's policy fetch is at
\* most 50,000 characters, the page text of getCleanPageText at most 10,000.
C29_TextIsBounded ==
  ExtractedText =>
    /\ TextLength(csOut.policyText) <= 50000
    /\ TextLength(csOut.pageContent) <= 10000
    /\ ~csOut.fetched.threw => TextLength(csOut.fetched.v) <= 50000

\* the text of the first container of the list that is present, the text of
\* the whole body when none is
FirstContainerText(elements, selectors) ==
  LET present == Present(elements, selectors)
  IN IF present = <<>> THEN BodyText(elements) ELSE QueryText(elements, Head(present))

\* C30: the extractors take their text from the first content container, in
\* the order of the selectors, that is present in the document, and the text
\* of the whole body only when no container of the list is present.
C30_FirstPresentContainer ==
  ExtractedText =>
    /\ csOut.policyText =
         cleanPolicyText(FirstContainerText(Remaining(csInput.elements, unwantedSelectors),
                                            contentSelectors))
    /\ csOut.pageContent =
         SubstringRuns(TrimRuns(CollapseRuns(
           FirstContainerText(Remaining(csInput.elements, unwantedElements),
                              mainContentSelectors))), 10000)

\* the same, for the documents whose first present container has a text
FirstContainerWithText ==
  (ExtractedText
   /\ \A el \in {csInput.elements[i] : i \in DOMAIN csInput.elements} :
        el.kind \in {"main", "article", ".policy-content"} => TextLength(el.text) > 0)
  => C30_FirstPresentContainer

Fetched == csFn = "findPrivacyPolicyLinks" /\ csPc = "analyzed" /\ csOut.fetchUrl # ""

\* C31: analyzeSite fetches a privacy policy from the page's own host only:
\* the URL it hands to fetch never has a host other than the page's domain.
C31_FetchesSameHostOnly ==
  Fetched => ParseURL(csOut.fetchUrl).hostname = currentDomain

\* a step whose AI call failed takes its fallback in this step
FallbackAfterFailure(templateName) ==
  /\ call.st = "rejected"
  /\ call.template = templateName
  /\ history[templateName] = "none"
  /\ history'[templateName] = "rejected"

\* C32: a failing AI call is attempted again: a step takes its fallback only
\* after the call has failed on its last attempt, the first call and
\* AI_CONFIG.maxRetries (2) retries being used up.
C32_FailedCallIsRetried ==
  [][\A templateName \in TemplateNames :
       FallbackAfterFailure(templateName) => call.attempt = 1 + AI_CONFIG.maxRetries]_vars

\* analyzePrivacyPolicy has returned, every step with a response of the AI
\* that validateResponse accepted
AllFourValidated == pc = "done" /\ \A templateName \in TemplateNames : history[templateName] = "ai"

\* the report carries the values of the AI
AIDerived(report) ==
  /\ Prop(report, "risk_score") = Prop(riskResult, "risk_score")
  /\ Prop(report, "verdict") = Prop(riskResult, "verdict")
  /\ Prop(report, "summary") = Prop(summarizerResult, "summary")

\* C34: when all four steps received responses that pass validateResponse,
\* analyzePrivacyPolicy returns the report combineAnalysisResults merges from
\* them, with the risk_score, verdict and summary of the AI, and never the
\* report of generateFallbackAnalysis, whatever 'categories' the cookie
\* response holds.
C34_ValidatedResultsAreMerged ==
  AllFourValidated =>
    /\ returned = "report"
    /\ AIDerived(finalResult)
    /\ finalResult # generateFallbackAnalysis(analysisData)

\* the same, for the cookie responses whose categories are arrays of cookies
\* or are missing
MergedWhenCategoriesAreArrays ==
  (AllFourValidated
   /\ LET categories == Prop(cookieResult, "categories")
      IN ~ToBoolean(categories)
         \/ (categories.t = "object"
             /\ \A k \in DOMAIN categories.f : ~ExamplesThrow(categories.f[k])))
  => /\ returned = "report"
     /\ AIDerived(finalResult)

HeuristicApplied == tplPc = "analyzed" /\ tplName = "heuristic"

\* the report's score is in [30, 100] and in the band of its verdict
ScoreInBand(report) ==
  LET score == Prop(report, "risk_score").n
      band == VERDICT_THRESHOLDS[Prop(report, "verdict").s]
  IN /\ Prop(report, "risk_score").t = "number"
     /\ 30 <= score /\ score <= 100
     /\ band.min <= score /\ score <= band.max

\* C37: the service worker's heuristic analyzePrivacyPolicy and
\* generateFallbackAnalysis yield, for every input, a risk_score in [30, 100]
\* and a verdict whose band (0-30 SAFE, 31-70 CAUTION, 71-100 UNSAFE) holds
\* the score, although the verdict is computed with the cut-offs < 40 and
\* < 70 from the score before the clamp.
C37_HeuristicScoreInBand ==
  HeuristicApplied =>
    /\ ScoreInBand(tplOut.fallback.v)
    /\ ScoreInBand(tplOut.fallbackAnalysis.v)

\* a heuristic score above 100 before the clamp, and a fallback analysis at 100
C37_Witness ==
  /\ HeuristicApplied
  /\ HeuristicRiskScore(tplInput) > 100
  /\ Prop(tplOut.fallback.v, "risk_score") = Num(100)
  /\ Prop(tplOut.fallbackAnalysis.v, "risk_score") = Num(100)

\* the fallback of the summarizer for the policy text of the analysis
SummarizerFallback ==
  generateFallbackResponse("SUMMARIZER", Obj([policyText |-> policyTextOf(analysisData)]))

\* runSummarizer has returned: the steps that follow it, and the end
AfterSummarizer == history["SUMMARIZER"] # "none"

\* what runSummarizer returns is the parsed response the AI gave, accepted by
\* validateResponse, or the fallback
C40_State ==
  /\ (pc \in {"runSummarizer", "awaitSummarizer"} /\ TooShort(policyTextOf(analysisData)))
       => call = NoCall
  /\ AfterSummarizer =>
       /\ TooShort(policyTextOf(analysisData)) =>
            history["SUMMARIZER"] = "short" /\ Ret(summarizerResult) = SummarizerFallback
       /\ history["SUMMARIZER"] \in {"rejected", "invalid"} => Ret(summarizerResult) = SummarizerFallback

\* a step of runSummarizer: it calls the AI only from its entry and for a
\* text that is long enough, and it returns what the settled call gives
C40_Step ==
  /\ (call'.template = "SUMMARIZER" /\ call.template # "SUMMARIZER")
       => pc = "runSummarizer" /\ ~TooShort(policyTextOf(analysisData)) /\ call'.attempt = 1
  /\ (history["SUMMARIZER"] = "none" /\ history'["SUMMARIZER"] = "ai")
       => /\ ToBoolean(validateResponse("SUMMARIZER", call.response).v)
          /\ Ret(summarizerResult') = JSON_parse(call.response)

\* C40: runSummarizer makes no AI call and returns the summarizer fallback
\* when the policy text is absent or shorter than 100 characters; for a longer
\* text it calls the AI at most once and returns the validated parsed
\* response or the fallback.
C40_SummarizerCallsOnce == [](C40_State) /\ [][C40_Step]_vars

\* runSummarizer returned the fallback without a call, for a short text
C40_Witness ==
  /\ history["SUMMARIZER"] = "short"
  /\ pc = "runCookieAnalysis"
  /\ ToBoolean(policyTextOf(analysisData))

\* a tab has finished loading and the listener has run
TabLoaded == csFn = "tabs.onUpdated" /\ csPc = "applied" /\ csInput.changeInfo.status = "complete"

\* the gate of the settings for the domain of the tab
AutoScanGate ==
  LET settings == csInput.settings
      domain == URLHostname(csInput.tab.url)
  IN /\ settings.autoScan = Bool(TRUE)
     /\ ~ListIncludes(settings.blocklist, domain)
     /\ \/ Nullish(settings.allowlist)
        \/ settings.allowlist = Arr(<<>>)
        \/ ListIncludes(settings.allowlist, domain)

Analyzed(p) == request[p].pc = "done" /\ request[p].outcome = "analyzed"

\* C35: concurrent analyses of two different domains lose no rate-limit
\* state: once both analyzeSite runs have completed, lastAnalysis holds a
\* timestamp for each of the two domains, however the reads and writes of
\* updateLastAnalysisTime interleave.
C35_BothTimestampsKept ==
  \A p, q \in Slots :
    (p # q /\ Analyzed(p) /\ Analyzed(q) /\ DomainKey(p) # DomainKey(q))
    => storageLast[DomainKey(p)] # 0 /\ storageLast[DomainKey(q)] # 0

\* a step of a call before its analysis, the steps a rate-limited or cached
\* call consists of, leaves the storage as it is
ReadOnlyStep ==
  \A p \in Slots :
    (request[p].pc \in {"getLastAnalysisTime", "getCachedResult"} /\ request'[p] # request[p])
    => storageCache' = storageCache /\ storageLast' = storageLast

\* a timestamp changes only in the last step of a run for its domain whose
\* report is cached, and to the time that run started at
TimestampStep ==
  \A k \in StorageKeys :
    storageLast'[k] # storageLast[k]
    => \E p \in Slots :
         /\ request[p].pc = "updateLastAnalysisTime_set"
         /\ request'[p].pc = "done"
         /\ DomainKey(p) = k
         /\ storageCache[k] # NoEntry
         /\ storageLast'[k] = request[p].now

\* the calls that do not run the pipeline write nothing
ReadOnlyCalls == [][ReadOnlyStep]_vars

\* C36: an analyzeSite call that is rate-limited or served from the cache
\* leaves every cache entry and every lastAnalysis timestamp unchanged;
\* lastAnalysis[domain] changes only after a pipeline run for the domain has
\* completed and its report is cached, and to the time that request started.
C36_OnlyCompletedRunsWrite == [][ReadOnlyStep /\ TimestampStep]_vars

\* the runs of analyzeCurrentSite that have started and not ended
InProgress == {r \in DOMAIN popup.runs : popup.runs[r].pc # "done"}

\* what the popup shows when its last run has ended
ShownAfter(outcome) == IF outcome = "success" THEN "main" ELSE "error"

C38_State ==
  /\ Cardinality(InProgress) <= 1
  /\ popup.isAnalyzing <=> InProgress # {}
  /\ InProgress # {} => popup.shown = "loading"
  /\ (InProgress = {} /\ popup.runs # <<>>) =>
       popup.shown = ShownAfter(popup.runs[Len(popup.runs)].outcome)

C38_Step == (popup.isAnalyzing /\ popup'.clicks # popup.clicks) => popup' = [popup EXCEPT !.clicks = @ + 1]

C38_Ends ==
  \A r \in 1 .. MaxClicks :
    (r \in DOMAIN popup.runs) ~> (r \in DOMAIN popup.runs /\ popup.runs[r].pc = "done")

\* C38: in the popup at most one run of analyzeCurrentSite is in progress at
\* any time, a click while isAnalyzing is true changes nothing, and every run
\* that starts ends with isAnalyzing false and the popup showing 'main' after
\* a success and 'error' after a failure, never 'loading'.
C38_OneRunAtATime == []C38_State /\ [][C38_Step]_vars /\ C38_Ends

\* a click came while the only run was in progress, and the run has succeeded
C38_Witness ==
  /\ popup.clicks >= 2
  /\ Len(popup.runs) = 1
  /\ popup.runs[1].outcome = "success"
  /\ popup.shown = "main"
  /\ ~popup.isAnalyzing

\* the response the listener owes to a message whose handler has ended
Answered(m) ==
  /\ Len(m.sent) = 1
  /\ m.type = "OTHER" => m.sent[1] = Response(FALSE, "Unknown message type")
  /\ (m.type # "OTHER" /\ m.handler = "returned") => m.sent[1].success
  /\ (m.type # "OTHER" /\ m.handler = "threw") => m.sent[1] = Response(FALSE, "error.message")

C39_State ==
  \A i \in DOMAIN listener :
    /\ Len(listener[i].sent) <= 1
    /\ listener[i].st = "done" => Answered(listener[i])

C39_Answers ==
  \A i \in 1 .. MaxSent :
    (i \in DOMAIN listener) ~> (i \in DOMAIN listener /\ listener[i].st = "done")

\* C39: the message listener of the service worker sends exactly one response
\* for every message: success true when the handler of a recognized type
\* returns, 'Unknown message type' for any other type, and success false with
\* the error when the handler throws; no message stays without a response.
C39_OneResponsePerMessage == []C39_State /\ C39_Answers

\* an ANALYZE_SITE whose handler threw, a message of an unknown type and a
\* PING have each got their response
C39_Witness ==
  /\ \E i \in DOMAIN listener :
       /\ listener[i].type = "ANALYZE_SITE"
       /\ listener[i].handler = "threw"
       /\ listener[i].sent = <<Response(FALSE, "error.message")>>
  /\ \E i \in DOMAIN listener : listener[i].type = "OTHER" /\ Len(listener[i].sent) = 1
  /\ \E i \in DOMAIN listener : listener[i].type = "PING" /\ listener[i].sent[1].success
====
